---- MODULE Spec2Model ----
(***************************************************************************)
(* Model of the two core components of mcp-cursor-rules:                   *)
(*   - CacheManager  (src/src/services/cache-manager.ts)                   *)
(*   - RuleComposer  (src/unnamed/part_016, lines 28-276)                  *)
(* The cache is a state machine driven by concurrent callers that go       *)
(* through the promise-chain lock of withLock; the composer is a pure      *)
(* function applied to bounded inputs.                                     *)
(***************************************************************************)
EXTENDS Integers, Sequences, FiniteSets, TLC

(***************************************************************************)
(* Bounds of the model                                                     *)
(***************************************************************************)
MaxCalls == 2          \* public cache calls issued concurrently in one behaviour
MaxPrefill == 2        \* awaited set calls made before the concurrent calls start
MaxPending == 2        \* calls in flight (queued on the lock or in a body)
MaxClock == 2          \* clock ticks in one behaviour
MaxCap == 2            \* largest configured maxSize
MaxPrio == 2           \* priorities passed to set are 0..MaxPrio
TickMs == 1500         \* milliseconds that one clock tick adds to Date.now()

(***************************************************************************)
(* Program constants                                                       *)
(***************************************************************************)
MsPerSecond == 1000            \* calculatePriority: age / 1000
DefaultThreshold == 1024       \* constructor: compressionThreshold || 1024
TestThreshold == 100           \* the threshold the test-suite configures

Keys == {"k1", "k2", "k3"}
Prios == 0..MaxPrio
USAGE_BASED == "usage_based"
PREDICTIVE == "predictive"

VARIABLES
  config,             \* this.config
  cache,              \* this.cache: the Map, as the sequence of its entries in iteration order
  metrics,            \* this.metrics
  operationLock,      \* this.operationLock: id of the promise at the tail of the chain
  resolved,           \* ids of the lock promises that are resolved
  warmingInProgress,  \* this.warmingInProgress
  ops,                \* calls in flight, in call order
  calls,              \* number of calls issued so far
  now,                \* Date.now(), in clock ticks
  hist,               \* the last two completed operations, oldest first
  lastAccess,         \* the most recent access to the instance's mutable state
  insertSeq,          \* ghost: number of entries inserted by set so far
  rules,              \* RuleComposer: the input of compose
  composed            \* RuleComposer: the outcome of compose

cacheVars == <<config, cache, metrics, operationLock, resolved,
               warmingInProgress, ops, calls, now, hist, lastAccess, insertSeq>>
composerVars == <<rules, composed>>
vars == <<config, cache, metrics, operationLock, resolved,
          warmingInProgress, ops, calls, now, hist, lastAccess, insertSeq,
          rules, composed>>

Max(a, b) == IF a >= b THEN a ELSE b
Min(a, b) == IF a <= b THEN a ELSE b
DateNow == now * TickMs

(***************************************************************************)
(* Rule values stored in the cache.  len is the length of the serialized   *)
(* rule, createdAt is a Date object.                                       *)
(***************************************************************************)
MkDate(ms) == [kind |-> "Date", ms |-> ms]
MkRuleValue(id, len) ==
  [kind |-> "Rule", id |-> id, len |-> len, bytes |-> 0, createdAt |-> MkDate(7)]
NullValue == [kind |-> "null", id |-> "", len |-> 0, bytes |-> 0, createdAt |-> MkDate(0)]
CacheValues == {MkRuleValue("small", 100), MkRuleValue("large", 200)}

\* Buffer.from(JSON.stringify(value)).length
serializedSize(value) == value.len

\* zlib deflate of the serialized rule: the buffer is shorter than its input
deflatedLength(n) == (n \div 4) + 8

\* compressValue: Dates become ISO strings, the JSON text is deflated;
\* len is the length of the JSON text inside, bytes the length of the buffer
compressValue(value) ==
  [kind |-> "Buffer", id |-> value.id, len |-> serializedSize(value),
   bytes |-> deflatedLength(serializedSize(value)),
   createdAt |-> [kind |-> "string", ms |-> value.createdAt.ms]]

\* decompressValue: inflate, JSON.parse, createdAt turned back into a Date
decompressValue(buf) ==
  [kind |-> "Rule", id |-> buf.id, len |-> buf.len, bytes |-> 0,
   createdAt |-> MkDate(buf.createdAt.ms)]

(***************************************************************************)
(* The Map                                                                 *)
(***************************************************************************)
RECURSIVE indexOfKey(_, _, _)
indexOfKey(c, key, i) ==
  IF i > Len(c) THEN 0
  ELSE IF c[i].key = key THEN i
  ELSE indexOfKey(c, key, i + 1)

mapHas(c, key) == indexOfKey(c, key, 1) /= 0
mapGet(c, key) == c[indexOfKey(c, key, 1)]

\* Map.delete
mapDelete(c, key) == SelectSeq(c, LAMBDA e : e.key /= key)

\* mutant of mapSet: a resident key is not overwritten
mapSetKeepsOld(c, entry) ==
  IF \E i \in 1..Len(c) : c[i].key = entry.key THEN c ELSE Append(c, entry)

\* Map.set: a resident key keeps its position, a new key goes last
mapSet(c, entry) ==
  IF mapHas(c, entry.key)
  THEN [i \in 1..Len(c) |-> IF c[i].key = entry.key THEN entry ELSE c[i]]
  ELSE Append(c, entry)

(***************************************************************************)
(* calculatePriority: (accessCount / max(1, age / 1000)) * priority, kept  *)
(* as the exact fraction num / den with den > 0.                           *)
(***************************************************************************)
\* mutant of calculatePriority: the age of the last access is ignored
calculatePriorityNoAge(entry, t) ==
  [num |-> entry.accessCount * entry.priority, den |-> 1]

calculatePriority(entry, t) ==
  [num |-> entry.accessCount * entry.priority * MsPerSecond,
   den |-> Max(MsPerSecond, t - entry.lastAccessed)]

scoreLess(a, b) == a.num * b.den < b.num * a.den

\* mutant of sortCompareLess: the base priority is compared the wrong way round
sortCompareDescending(a, b) ==
  IF a.basePriority /= b.basePriority
  THEN a.basePriority > b.basePriority
  ELSE a.priority.num * b.priority.den < b.priority.num * a.priority.den

\* the comparator of entries.sort in set: negative result
sortCompareLess(a, b) ==
  IF a.basePriority /= b.basePriority
  THEN a.basePriority < b.basePriority
  ELSE scoreLess(a.priority, b.priority)

\* mutant of sortInsert: equal elements are put in reverse order
RECURSIVE sortInsertUnstable(_, _)
sortInsertUnstable(x, s) ==
  IF s = <<>> THEN <<x>>
  ELSE IF ~sortCompareLess(Head(s), x) THEN <<x>> \o s
  ELSE <<Head(s)>> \o sortInsertUnstable(x, Tail(s))

\* Array.prototype.sort is stable: x goes before the first element it is less than
RECURSIVE sortInsert(_, _)
sortInsert(x, s) ==
  IF s = <<>> THEN <<x>>
  ELSE IF sortCompareLess(x, Head(s)) THEN <<x>> \o s
  ELSE <<Head(s)>> \o sortInsert(x, Tail(s))

RECURSIVE sortEntries(_)
sortEntries(s) ==
  IF s = <<>> THEN <<>>
  ELSE sortInsert(s[Len(s)], sortEntries(SubSeq(s, 1, Len(s) - 1)))

\* the ranked candidates of set's eviction step
rankedEntries(c, t) ==
  sortEntries([i \in 1..Len(c) |->
                 [key |-> c[i].key,
                  priority |-> calculatePriority(c[i], t),
                  basePriority |-> c[i].priority]])

\* mutant of evictionChoice: the capacity test is off by one
evictionChoiceLate(c, priority, maxSize, t) ==
  IF Len(c) > maxSize
  THEN [drop |-> FALSE, evict |-> rankedEntries(c, t)[1].key]
  ELSE [drop |-> FALSE, evict |-> ""]

\* set, lines 306-339: the key to evict ("" when nothing has to be evicted),
\* and whether the new item is dropped instead of added
evictionChoice(c, priority, maxSize, t) ==
  IF Len(c) >= maxSize
  THEN LET entries == rankedEntries(c, t)
       IN IF Len(entries) >= 1 /\ priority >= entries[1].basePriority
          THEN [drop |-> FALSE, evict |-> entries[1].key]
          ELSE IF Len(entries) > 1
               THEN [drop |-> FALSE, evict |-> entries[2].key]
               ELSE [drop |-> TRUE, evict |-> ""]
  ELSE [drop |-> FALSE, evict |-> ""]

\* mutant of setInsert: entries past their deadline are removed before the
\* eviction step
setInsertPurgesExpired(c, key, finalValue, compressed, size, priority, t, cfg, seq) ==
  LET live == SelectSeq(c, LAMBDA e : t <= e.expiresAt)
      choice == evictionChoice(live, priority, cfg.maxSize, t)
      kept == IF choice.evict = "" THEN live ELSE mapDelete(live, choice.evict)
  IN IF choice.drop
     THEN live
     ELSE mapSet(kept, [key |-> key,
                        value |-> finalValue,
                        expiresAt |-> t + cfg.ttl,
                        priority |-> priority,
                        accessCount |-> 0,
                        lastAccessed |-> t,
                        compressed |-> compressed,
                        size |-> IF compressed THEN finalValue.bytes ELSE size,
                        seq |-> seq + 1])

\* mutant of setInsert: a key that is already resident is updated in place,
\* without the eviction step
setInsertUpdatesInPlace(c, key, finalValue, compressed, size, priority, t, cfg, seq) ==
  LET choice == IF mapHas(c, key) THEN [drop |-> FALSE, evict |-> ""]
                ELSE evictionChoice(c, priority, cfg.maxSize, t)
      kept == IF choice.evict = "" THEN c ELSE mapDelete(c, choice.evict)
  IN IF choice.drop
     THEN c
     ELSE mapSet(kept, [key |-> key,
                        value |-> finalValue,
                        expiresAt |-> t + cfg.ttl,
                        priority |-> priority,
                        accessCount |-> 0,
                        lastAccessed |-> t,
                        compressed |-> compressed,
                        size |-> IF compressed THEN finalValue.bytes ELSE size,
                        seq |-> seq + 1])

\* set, lines 306-349: eviction step and insertion
setInsert(c, key, finalValue, compressed, size, priority, t, cfg, seq) ==
  LET choice == evictionChoice(c, priority, cfg.maxSize, t)
      kept == IF choice.evict = "" THEN c ELSE mapDelete(c, choice.evict)
  IN IF choice.drop
     THEN c
     ELSE mapSet(kept, [key |-> key,
                        value |-> finalValue,
                        expiresAt |-> t + cfg.ttl,
                        priority |-> priority,
                        accessCount |-> 0,
                        lastAccessed |-> t,
                        compressed |-> compressed,
                        size |-> IF compressed THEN finalValue.bytes ELSE size,
                        seq |-> seq + 1])

(***************************************************************************)
(* warm, lines 230-267                                                     *)
(***************************************************************************)
\* mutant of isExpired: an entry is already stale at its deadline
isExpiredAtDeadline(entry, t) == t >= entry.expiresAt

\* an entry is stale when Date.now() > entry.expiresAt
isExpired(entry, t) == t > entry.expiresAt

\* (entry.accessCount || 0) * (entry.priority || 1)
warmScore(entry) ==
  entry.accessCount * (IF entry.priority = 0 THEN 1 ELSE entry.priority)

\* scoredEntries.sort((a, b) => b.score - a.score), stable
RECURSIVE warmSortInsert(_, _)
warmSortInsert(x, s) ==
  IF s = <<>> THEN <<x>>
  ELSE IF warmScore(x) > warmScore(Head(s)) THEN <<x>> \o s
  ELSE <<Head(s)>> \o warmSortInsert(x, Tail(s))

RECURSIVE warmSort(_)
warmSort(s) ==
  IF s = <<>> THEN <<>>
  ELSE warmSortInsert(s[Len(s)], warmSort(SubSeq(s, 1, Len(s) - 1)))

\* Math.max(Math.min(2, n), Math.ceil(n * 0.2))
keepCount(n) == Max(Min(2, n), (n + 4) \div 5)

\* mutant of warmResult: the kept entries keep their access counts
warmResultKeepsCount(c, t, ttl) ==
  LET scoredEntries ==
        SelectSeq(c, LAMBDA e : ~isExpired(e, t) /\ warmScore(e) > 0)
      sorted == warmSort(scoredEntries)
      entriesToKeep == SubSeq(sorted, 1, keepCount(Len(sorted)))
  IN IF Len(c) = 0 \/ Len(scoredEntries) = 0
     THEN c
     ELSE [i \in 1..Len(entriesToKeep) |->
             [entriesToKeep[i] EXCEPT !.expiresAt = t + ttl, !.lastAccessed = t]]

\* the cache after the body of warm
warmResult(c, t, ttl) ==
  LET scoredEntries ==
        SelectSeq(c, LAMBDA e : ~isExpired(e, t) /\ warmScore(e) > 0)
      sorted == warmSort(scoredEntries)
      entriesToKeep == SubSeq(sorted, 1, keepCount(Len(sorted)))
  IN IF Len(c) = 0 \/ Len(scoredEntries) = 0
     THEN c
     ELSE [i \in 1..Len(entriesToKeep) |->
             [entriesToKeep[i] EXCEPT !.expiresAt = t + ttl,
                                      !.accessCount = 1,
                                      !.lastAccessed = t]]

(***************************************************************************)
(* calculateCompressionRatio, as the fraction num / den                    *)
(***************************************************************************)
\* Buffer.from(JSON.stringify(buffer)).length: {"type":"Buffer","data":[...]}
bufferJsonLength(entry) == 26 + 3 * entry.value.bytes

RECURSIVE sumSize(_)
sumSize(c) == IF c = <<>> THEN 0 ELSE Head(c).size + sumSize(Tail(c))

RECURSIVE sumOriginal(_)
sumOriginal(c) == IF c = <<>> THEN 0 ELSE bufferJsonLength(Head(c)) + sumOriginal(Tail(c))

calculateCompressionRatio(c) ==
  LET compressedEntries == SelectSeq(c, LAMBDA e : e.compressed)
  IN IF Len(c) = 0 \/ Len(compressedEntries) = 0
     THEN [num |-> 0, den |-> 1]
     ELSE [num |-> sumSize(compressedEntries), den |-> sumOriginal(compressedEntries)]

ZeroMetrics == [hits |-> 0, misses |-> 0, compressionRatio |-> [num |-> 0, den |-> 1]]

(***************************************************************************)
(* Construction                                                            *)
(***************************************************************************)
\* the constructor's defaults: compressionThreshold || 1024, warmingStrategy || USAGE_BASED
constructorConfig(cfg) ==
  [ttl |-> cfg.ttl,
   maxSize |-> cfg.maxSize,
   compressionThreshold |->
     IF cfg.compressionThreshold = 0 THEN DefaultThreshold ELSE cfg.compressionThreshold,
   warmingStrategy |->
     IF cfg.warmingStrategy = "" THEN USAGE_BASED ELSE cfg.warmingStrategy]

ConfigInputs ==
  [ttl : {TickMs}, maxSize : 1..MaxCap, compressionThreshold : {TestThreshold},
   warmingStrategy : {"", PREDICTIVE}]

(***************************************************************************)
(* withLock                                                                *)
(***************************************************************************)
\* withLock, lines 82-86: the call takes the tail of the chain as currentLock
\* and installs its own promise as the new tail
enqueue(op, key, value, priority) ==
  /\ ops' = Append(ops, [id |-> calls + 1, cur |-> operationLock, op |-> op,
                         key |-> key, value |-> value, priority |-> priority,
                         pc |-> "await", buf |-> NullValue, at |-> 0])
  /\ operationLock' = calls + 1
  /\ calls' = calls + 1

\* mutant of lockAcquired: the body does not wait for the previous call
lockNotAwaited(o) == o.cur >= 0

\* withLock, line 89: await currentLock
lockAcquired(o) == o.cur \in resolved

\* an operation suspended inside its body, at the await of (de)compression
inBody(o) == o.pc \in {"compress", "decompress"}

\* some operation other than ops[i] is inside its body
othersInBody(i) == \E j \in 1..Len(ops) : j /= i /\ inBody(ops[j])

removeAt(s, i) == SubSeq(s, 1, i - 1) \o SubSeq(s, i + 1, Len(s))

\* what a completed call did: result is the value get returned, n the number
\* getSize returned, flag tells a hit (get), a dropped insert (set) or an
\* effective run (warm), evicted the key that the call removed, at the time
\* at which its body read the clock
record(o, result, n, flag, evicted, at) ==
  [id |-> o.id, op |-> o.op, key |-> o.key, value |-> o.value,
   priority |-> o.priority, result |-> result, n |-> n, flag |-> flag,
   evicted |-> evicted, at |-> at]

remember(h, r) == IF Len(h) = 0 THEN <<r>> ELSE <<h[Len(h)], r>>

\* withLock, lines 90-93: the operation returns and the finally block resolves the call's promise
release(i, result, n, flag, evicted, at) ==
  /\ ops' = removeAt(ops, i)
  /\ resolved' = resolved \cup {ops[i].id}
  /\ hist' = remember(hist, record(ops[i], result, n, flag, evicted, at))

access(i, phase) ==
  lastAccess' = [id |-> ops[i].id, op |-> ops[i].op, key |-> ops[i].key,
                 phase |-> phase, inLock |-> lockAcquired(ops[i]),
                 overlap |-> othersInBody(i), saw |-> FALSE]

NoAccess ==
  [id |-> 0, op |-> "none", key |-> "", phase |-> "none", inLock |-> TRUE,
   overlap |-> FALSE, saw |-> FALSE]

\* The calls made and awaited one after the other before the concurrent calls
\* start, all at time 0: set(keys[1], small, script[1]), set(keys[2], small,
\* script[2]), ...
smallRule == MkRuleValue("small", 100)

RECURSIVE prefilled(_, _, _, _)
prefilled(keys, script, n, cfg) ==
  IF n = 0 THEN [cache |-> <<>>, seq |-> 0]
  ELSE LET before == prefilled(keys, script, n - 1, cfg)
           dropped == evictionChoice(before.cache, script[n], cfg.maxSize, 0).drop
       IN [cache |-> setInsert(before.cache, keys[n], smallRule, FALSE,
                               serializedSize(smallRule), script[n], 0, cfg, before.seq),
           seq |-> IF dropped THEN before.seq ELSE before.seq + 1]

PrefillKeys == <<"k1", "k2", "k3">>
Prefills == UNION {[1..n -> Prios] : n \in 0..Min(MaxPrefill, Len(PrefillKeys))}

InitCache ==
  /\ config \in {constructorConfig(cfg) : cfg \in ConfigInputs}
  /\ \E script \in Prefills :
       /\ cache = prefilled(PrefillKeys, script, Len(script), config).cache
       /\ insertSeq = prefilled(PrefillKeys, script, Len(script), config).seq
  /\ metrics = ZeroMetrics
  /\ operationLock = 0
  /\ resolved = {0}
  /\ warmingInProgress = FALSE
  /\ ops = <<>>
  /\ calls = 0
  /\ now = 0
  /\ hist = <<>>
  /\ lastAccess = NoAccess

(***************************************************************************)
(* Calls: a caller invokes a public operation; the operation is queued on  *)
(* the lock chain.  Callers do not have to await earlier calls.            *)
(***************************************************************************)
CanCall == calls < MaxCalls /\ Len(ops) < MaxPending

CallGet(key) ==
  /\ CanCall
  /\ enqueue("get", key, NullValue, 0)
  /\ UNCHANGED <<config, cache, metrics, resolved, warmingInProgress, now, hist,
                 lastAccess, insertSeq, rules, composed>>

CallSet(key, value, priority) ==
  /\ CanCall
  /\ enqueue("set", key, value, priority)
  /\ UNCHANGED <<config, cache, metrics, resolved, warmingInProgress, now, hist,
                 lastAccess, insertSeq, rules, composed>>

CallDelete(key) ==
  /\ CanCall
  /\ enqueue("delete", key, NullValue, 0)
  /\ UNCHANGED <<config, cache, metrics, resolved, warmingInProgress, now, hist,
                 lastAccess, insertSeq, rules, composed>>

CallSimple(op) ==
  /\ CanCall
  /\ enqueue(op, "", NullValue, 0)
  /\ UNCHANGED <<config, cache, metrics, resolved, warmingInProgress, now, hist,
                 lastAccess, insertSeq, rules, composed>>

\* mutant of warmGuardReturns: the strategy is not looked at
warmGuardIgnoresStrategy == warmingInProgress

\* warm, lines 214-219: the guard is evaluated by the caller, before withLock
warmGuardReturns == warmingInProgress \/ config.warmingStrategy /= USAGE_BASED

CallWarm ==
  /\ CanCall
  /\ lastAccess' = [id |-> calls + 1, op |-> "warm", key |-> "", phase |-> "guard",
                    inLock |-> FALSE,
                    overlap |-> \E j \in 1..Len(ops) : inBody(ops[j]),
                    saw |-> warmingInProgress]
  /\ IF warmGuardReturns
     THEN /\ calls' = calls + 1
          /\ hist' = remember(hist, [id |-> calls + 1, op |-> "warm", key |-> "",
                                     value |-> NullValue, priority |-> 0,
                                     result |-> NullValue, n |-> 0, flag |-> FALSE,
                                     evicted |-> "", at |-> DateNow])
          /\ UNCHANGED <<ops, operationLock>>
     ELSE /\ enqueue("warm", "", NullValue, 0)
          /\ UNCHANGED hist
  /\ UNCHANGED <<config, cache, metrics, resolved, warmingInProgress, now,
                 insertSeq, rules, composed>>

(***************************************************************************)
(* Bodies.  A body starts when the call's currentLock is resolved and runs *)
(* to its end or to its await of compression / decompression.              *)
(***************************************************************************)
Starts(i, op) ==
  /\ ops[i].op = op
  /\ ops[i].pc = "await"
  /\ lockAcquired(ops[i])

\* mutant of touch: a hit also renews the entry's deadline
touchExtends(entry, t) ==
  [entry EXCEPT !.accessCount = @ + 1, !.lastAccessed = t, !.expiresAt = t + config.ttl]

\* get, lines 195-196: a hit counts the access and stamps it
touch(entry, t) == [entry EXCEPT !.accessCount = @ + 1, !.lastAccessed = t]

\* get, lines 181-206
GetBody(i) ==
  /\ Starts(i, "get")
  /\ access(i, "body")
  /\ LET key == ops[i].key IN
     IF ~mapHas(cache, key)
     THEN /\ metrics' = [metrics EXCEPT !.misses = @ + 1]
          /\ release(i, NullValue, 0, FALSE, "", DateNow)
          /\ UNCHANGED cache
     ELSE LET entry == mapGet(cache, key) IN
          IF isExpired(entry, DateNow)
          THEN /\ cache' = mapDelete(cache, key)
               /\ metrics' = [metrics EXCEPT !.misses = @ + 1]
               /\ release(i, NullValue, 0, FALSE, key, DateNow)
          ELSE /\ cache' = mapSet(cache, touch(entry, DateNow))
               /\ metrics' = [metrics EXCEPT !.hits = @ + 1]
               /\ IF entry.compressed
                  THEN /\ ops' = [ops EXCEPT ![i].pc = "decompress",
                                             ![i].buf = entry.value,
                                             ![i].at = DateNow]
                       /\ UNCHANGED <<resolved, hist>>
                  ELSE release(i, entry.value, 0, TRUE, "", DateNow)
  /\ UNCHANGED <<config, operationLock, warmingInProgress, calls, now, insertSeq,
                 rules, composed>>

\* get, line 203: the awaited decompressValue completes and get returns
GetResume(i) ==
  /\ ops[i].op = "get"
  /\ ops[i].pc = "decompress"
  /\ access(i, "resume")
  /\ release(i, decompressValue(ops[i].buf), 0, TRUE, "", ops[i].at)
  /\ UNCHANGED <<config, cache, metrics, operationLock, warmingInProgress, calls,
                 now, insertSeq, rules, composed>>

setChoice(i) == evictionChoice(cache, ops[i].priority, config.maxSize, DateNow)

\* mutant of needsCompression: a value of exactly the threshold size is compressed
needsCompressionAtThreshold(value) == serializedSize(value) >= config.compressionThreshold

\* set, line 300
needsCompression(value) == serializedSize(value) > config.compressionThreshold

\* set, lines 296-349 for a value that is stored as it is
SetBody(i) ==
  /\ Starts(i, "set")
  /\ access(i, "body")
  /\ IF needsCompression(ops[i].value)
     THEN /\ ops' = [ops EXCEPT ![i].pc = "compress"]
          /\ UNCHANGED <<cache, resolved, hist, insertSeq>>
     ELSE /\ cache' = setInsert(cache, ops[i].key, ops[i].value, FALSE,
                                serializedSize(ops[i].value), ops[i].priority, DateNow,
                                config, insertSeq)
          /\ insertSeq' = IF setChoice(i).drop THEN insertSeq ELSE insertSeq + 1
          /\ release(i, NullValue, 0, setChoice(i).drop, setChoice(i).evict, DateNow)
  /\ UNCHANGED <<config, metrics, operationLock, warmingInProgress, calls, now,
                 rules, composed>>

\* set, lines 301-349: the awaited compressValue completes
SetResume(i) ==
  /\ ops[i].op = "set"
  /\ ops[i].pc = "compress"
  /\ access(i, "resume")
  /\ metrics' = [metrics EXCEPT !.compressionRatio = calculateCompressionRatio(cache)]
  /\ cache' = setInsert(cache, ops[i].key, compressValue(ops[i].value), TRUE,
                        serializedSize(ops[i].value), ops[i].priority, DateNow,
                        config, insertSeq)
  /\ insertSeq' = IF setChoice(i).drop THEN insertSeq ELSE insertSeq + 1
  /\ release(i, NullValue, 0, setChoice(i).drop, setChoice(i).evict, DateNow)
  /\ UNCHANGED <<config, operationLock, warmingInProgress, calls, now, rules, composed>>

\* delete, lines 353-357
DeleteBody(i) ==
  /\ Starts(i, "delete")
  /\ access(i, "body")
  /\ cache' = mapDelete(cache, ops[i].key)
  /\ release(i, NullValue, 0, FALSE, "", DateNow)
  /\ UNCHANGED <<config, metrics, operationLock, warmingInProgress, calls, now,
                 insertSeq, rules, composed>>

\* mutant of ClearBody: the counters survive the clear
ClearBodyKeepsCounters(i) ==
  /\ Starts(i, "clear")
  /\ access(i, "body")
  /\ cache' = <<>>
  /\ release(i, NullValue, 0, FALSE, "", DateNow)
  /\ UNCHANGED <<config, metrics, operationLock, warmingInProgress, calls, now,
                 insertSeq, rules, composed>>

\* clear, lines 359-369
ClearBody(i) ==
  /\ Starts(i, "clear")
  /\ access(i, "body")
  /\ cache' = <<>>
  /\ metrics' = ZeroMetrics
  /\ release(i, NullValue, 0, FALSE, "", DateNow)
  /\ UNCHANGED <<config, operationLock, warmingInProgress, calls, now, insertSeq,
                 rules, composed>>

\* getSize, lines 371-373
GetSizeBody(i) ==
  /\ Starts(i, "getSize")
  /\ access(i, "body")
  /\ release(i, NullValue, Len(cache), FALSE, "", DateNow)
  /\ UNCHANGED <<config, cache, metrics, operationLock, warmingInProgress, calls,
                 now, insertSeq, rules, composed>>

\* getMetrics, lines 375-377
GetMetricsBody(i) ==
  /\ Starts(i, "getMetrics")
  /\ access(i, "body")
  /\ release(i, NullValue, metrics.hits + metrics.misses, FALSE, "", DateNow)
  /\ UNCHANGED <<config, cache, metrics, operationLock, warmingInProgress, calls,
                 now, insertSeq, rules, composed>>

\* warm, lines 221-274: the body has no await, warmingInProgress is set and
\* cleared again before any other code can run
WarmBody(i) ==
  /\ Starts(i, "warm")
  /\ access(i, "body")
  /\ cache' = warmResult(cache, DateNow, config.ttl)
  /\ warmingInProgress' = FALSE
  /\ release(i, NullValue, 0, cache' /= cache, "", DateNow)
  /\ UNCHANGED <<config, metrics, operationLock, calls, now, insertSeq, rules, composed>>

\* time passes
Tick ==
  /\ now < MaxClock
  /\ now' = now + 1
  /\ UNCHANGED <<config, cache, metrics, operationLock, resolved, warmingInProgress,
                 ops, calls, hist, lastAccess, insertSeq, rules, composed>>

InitComposerIdle ==
  /\ rules = <<>>
  /\ composed = [status |-> "idle"]

Init == InitCache /\ InitComposerIdle

Next ==
  \/ \E key \in Keys : CallGet(key)
  \/ \E key \in Keys, value \in CacheValues, priority \in Prios : CallSet(key, value, priority)
  \/ \E key \in Keys : CallDelete(key)
  \/ \E op \in {"clear", "getSize", "getMetrics"} : CallSimple(op)
  \/ CallWarm
  \/ \E i \in 1..Len(ops) : GetBody(i)
  \/ \E i \in 1..Len(ops) : GetResume(i)
  \/ \E i \in 1..Len(ops) : SetBody(i)
  \/ \E i \in 1..Len(ops) : SetResume(i)
  \/ \E i \in 1..Len(ops) : DeleteBody(i)
  \/ \E i \in 1..Len(ops) : ClearBody(i)
  \/ \E i \in 1..Len(ops) : GetSizeBody(i)
  \/ \E i \in 1..Len(ops) : GetMetricsBody(i)
  \/ \E i \in 1..Len(ops) : WarmBody(i)
  \/ Tick

Spec == Init /\ [][Next]_vars

(***************************************************************************)
(* A second specification for the eviction step: larger caches, filled by  *)
(* longer runs of awaited calls, then set and get calls of small rules.    *)
(***************************************************************************)
EvictKeys == Keys \cup {"k4"}
EvictPrefillKeys == <<"k1", "k2", "k1", "k3">>
EvictPrefills == UNION {[1..n -> 1..MaxPrio] : n \in 0..Min(MaxPrefill + 2, Len(EvictPrefillKeys))}
EvictConfigInputs ==
  [ttl : {TickMs}, maxSize : 1..(MaxCap + 1), compressionThreshold : {TestThreshold},
   warmingStrategy : {""}]

\* the prefilled cache, after an awaited get("k2") when read is true
prefilledRead(c, read) ==
  IF read THEN mapSet(c, touch(mapGet(c, "k2"), 0)) ELSE c

InitEvict ==
  /\ config \in {constructorConfig(cfg) : cfg \in EvictConfigInputs}
  /\ \E script \in EvictPrefills, read \in BOOLEAN :
       LET pre == prefilled(EvictPrefillKeys, script, Len(script), config) IN
       /\ read => mapHas(pre.cache, "k2")
       /\ cache = prefilledRead(pre.cache, read)
       /\ insertSeq = pre.seq
       /\ metrics = [ZeroMetrics EXCEPT !.hits = IF read THEN 1 ELSE 0]
  /\ operationLock = 0
  /\ resolved = {0}
  /\ warmingInProgress = FALSE
  /\ ops = <<>>
  /\ calls = 0
  /\ now = 0
  /\ hist = <<>>
  /\ lastAccess = NoAccess
  /\ InitComposerIdle

NextEvict ==
  \/ \E key \in EvictKeys : CallGet(key)
  \/ \E key \in EvictKeys, priority \in Prios : CallSet(key, smallRule, priority)
  \/ \E i \in 1..Len(ops) : GetBody(i)
  \/ \E i \in 1..Len(ops) : SetBody(i)
  \/ Tick

SpecEvict == InitEvict /\ [][NextEvict]_vars

(***************************************************************************)
(* A specification for warm: caches of read and unread, early and late,    *)
(* plain and compressed entries, then warm calls while time passes.        *)
(***************************************************************************)
MaxWarm == 3           \* entries of a cache that is warmed
MaxReads == 2          \* awaited gets of one key before the warm calls

PRIORITY == "priority"
WarmKeys == <<"k1", "k2", "k3", "k4">>
largeRule == MkRuleValue("large", 200)

WarmConfigInputs ==
  [ttl : {TickMs}, maxSize : {MaxWarm}, compressionThreshold : {TestThreshold},
   warmingStrategy : {"", PREDICTIVE, PRIORITY}]

\* one awaited set per key, followed by reads awaited gets of the key; a late
\* key is set and read one tick after the early ones
WarmFillSteps == [priority : Prios, reads : 0..MaxReads, late : BOOLEAN]
WarmFills ==
  {script \in UNION {[1..n -> WarmFillSteps] : n \in 0..Min(MaxWarm, Len(WarmKeys))} :
     \A i, j \in 1..Len(script) : (i < j /\ script[i].late) => script[j].late}

RECURSIVE readTimes(_, _, _, _)
readTimes(c, key, n, t) ==
  IF n = 0 THEN c ELSE readTimes(mapSet(c, touch(mapGet(c, key), t)), key, n - 1, t)

RECURSIVE totalReads(_)
totalReads(script) ==
  IF script = <<>> THEN 0 ELSE Head(script).reads + totalReads(Tail(script))

\* the first key holds a large rule, stored compressed, when firstLarge is true
RECURSIVE warmFilled(_, _, _, _)
warmFilled(script, n, firstLarge, cfg) ==
  IF n = 0 THEN <<>>
  ELSE LET before == warmFilled(script, n - 1, firstLarge, cfg)
           t == IF script[n].late THEN TickMs ELSE 0
           large == firstLarge /\ n = 1
           inserted ==
             IF large
             THEN setInsert(before, WarmKeys[n], compressValue(largeRule), TRUE,
                            serializedSize(largeRule), script[n].priority, t, cfg, n - 1)
             ELSE setInsert(before, WarmKeys[n], smallRule, FALSE,
                            serializedSize(smallRule), script[n].priority, t, cfg, n - 1)
       IN readTimes(inserted, WarmKeys[n], script[n].reads, t)

InitWarm ==
  /\ config \in {constructorConfig(cfg) : cfg \in WarmConfigInputs}
  /\ \E script \in WarmFills, firstLarge \in BOOLEAN :
       /\ firstLarge => Len(script) >= 1
       /\ cache = warmFilled(script, Len(script), firstLarge, config)
       /\ insertSeq = Len(script)
       /\ metrics = [ZeroMetrics EXCEPT !.hits = totalReads(script)]
       /\ now = IF \E i \in 1..Len(script) : script[i].late THEN 1 ELSE 0
  /\ operationLock = 0
  /\ resolved = {0}
  /\ warmingInProgress = FALSE
  /\ ops = <<>>
  /\ calls = 0
  /\ hist = <<>>
  /\ lastAccess = NoAccess
  /\ InitComposerIdle

NextWarm ==
  \/ CallWarm
  \/ \E i \in 1..Len(ops) : WarmBody(i)
  \/ Tick

SpecWarm == InitWarm /\ [][NextWarm]_vars

(***************************************************************************)
(* RuleComposer.  A rule's content is its sequence of lines; a line is     *)
(*   dep       "depends-on: <a>"                                           *)
(*   depEmpty  "depends-on:"            (no value)                         *)
(*   set       "<a>: <b>"                                                  *)
(*   text      "<a>"                    (no colon)                         *)
(* and the composed content adds header, blank and conflict lines.         *)
(***************************************************************************)
MaxRules == 3          \* rules given to compose

Line(kind, a, b, n) == [kind |-> kind, a |-> a, b |-> b, n |-> n]
Dep(id) == Line("dep", id, "", 0)
DepEmpty == Line("depEmpty", "", "", 0)
Setting(key, value) == Line("set", key, value, 0)
Text(word) == Line("text", word, "", 0)
Blank == Line("blank", "", "", 0)

RuleIds == <<"a", "b", "c">>
ExternalId == "z"

\* the text of a line up to its first colon
firstField(line) == IF line.kind \in {"dep", "depEmpty"} THEN "depends-on" ELSE line.a

addUnique(seq, x) == IF \E i \in 1..Len(seq) : seq[i] = x THEN seq ELSE Append(seq, x)

\* extractDependencies: content.match(/depends-on:\s*([^\n]+)/g), then
\* match.split(":")[1].trim().  The \s* runs over the line break, so a
\* directive without a value takes the whole next line as its match.
RECURSIVE scanDependencies(_, _, _)
scanDependencies(content, i, found) ==
  IF i > Len(content) THEN found
  ELSE IF content[i].kind = "dep"
       THEN scanDependencies(content, i + 1, addUnique(found, content[i].a))
  ELSE IF content[i].kind = "depEmpty" /\ i < Len(content)
       THEN scanDependencies(content, i + 2, addUnique(found, firstField(content[i + 1])))
  ELSE scanDependencies(content, i + 1, found)

extractDependencies(content) == scanDependencies(content, 1, <<>>)

\* checkCircularDependencies, lines 95-101: later rules overwrite earlier ones of the same id
dependencyGraph(rs) ==
  [id \in {rs[i].id : i \in 1..Len(rs)} |->
     LET last == CHOOSE i \in 1..Len(rs) :
                   rs[i].id = id /\ \A j \in 1..Len(rs) : rs[j].id = id => j <= i
     IN extractDependencies(rs[last].content)]

\* hasCycle, lines 107-127, with the visited and recursionStack sets threaded through
RECURSIVE hasCycle(_, _, _)
RECURSIVE hasCycleAmong(_, _, _, _)
hasCycle(graph, ruleId, st) ==
  IF ruleId \in st.recursionStack THEN [found |-> TRUE, st |-> st]
  ELSE IF ruleId \in st.visited THEN [found |-> FALSE, st |-> st]
  ELSE LET entered == [visited |-> st.visited \cup {ruleId},
                       recursionStack |-> st.recursionStack \cup {ruleId}]
           dependencies == IF ruleId \in DOMAIN graph THEN graph[ruleId] ELSE <<>>
           r == hasCycleAmong(graph, dependencies, 1, entered)
       IN IF r.found THEN r
          ELSE [found |-> FALSE,
                st |-> [r.st EXCEPT !.recursionStack = @ \ {ruleId}]]

hasCycleAmong(graph, dependencies, j, st) ==
  IF j > Len(dependencies) THEN [found |-> FALSE, st |-> st]
  ELSE LET r == hasCycle(graph, dependencies[j], st)
       IN IF r.found THEN r ELSE hasCycleAmong(graph, dependencies, j + 1, r.st)

RECURSIVE checkFrom(_, _, _, _)
checkFrom(graph, rs, i, st) ==
  IF i > Len(rs) THEN FALSE
  ELSE LET r == hasCycle(graph, rs[i].id, st)
       IN IF r.found THEN TRUE ELSE checkFrom(graph, rs, i + 1, r.st)

\* checkCircularDependencies: TRUE when it throws
checkCircularDependencies(rs) ==
  checkFrom(dependencyGraph(rs), rs, 1, [visited |-> {}, recursionStack |-> {}])

\* mutant of validateRules: only the first rule is validated
validateRulesFirstOnly(rs) ==
  rs[1].id = "" \/ rs[1].type = "" \/ rs[1].content = <<>> \/ rs[1].name = ""

\* validateRules: TRUE when it throws
validateRules(rs) ==
  \E i \in 1..Len(rs) :
    rs[i].id = "" \/ rs[i].type = "" \/ rs[i].content = <<>> \/ rs[i].name = ""

\* mutant of sortRuleInsert: the rules are sorted by ascending priority number
RECURSIVE sortRuleInsertAscending(_, _)
sortRuleInsertAscending(x, s) ==
  IF s = <<>> THEN <<x>>
  ELSE IF x.priority < Head(s).priority THEN <<x>> \o s
  ELSE <<Head(s)>> \o sortRuleInsertAscending(x, Tail(s))

\* mutant of sortRuleInsert: the rules stay in the order of the input
sortRuleInsertAppends(x, s) == Append(s, x)

\* [...rules].sort((a, b) => (b.priority || 0) - (a.priority || 0)), stable
RECURSIVE sortRuleInsert(_, _)
sortRuleInsert(x, s) ==
  IF s = <<>> THEN <<x>>
  ELSE IF x.priority > Head(s).priority THEN <<x>> \o s
  ELSE <<Head(s)>> \o sortRuleInsert(x, Tail(s))

RECURSIVE sortRules(_)
sortRules(rs) ==
  IF rs = <<>> THEN <<>>
  ELSE sortRuleInsert(rs[Len(rs)], sortRules(SubSeq(rs, 1, Len(rs) - 1)))

\* a Map as the sequence of its [key, val] pairs in insertion order
pairIndex(m, key) ==
  IF \E i \in 1..Len(m) : m[i].key = key
  THEN CHOOSE i \in 1..Len(m) : m[i].key = key
  ELSE 0
pairGet(m, key, default) == IF pairIndex(m, key) = 0 THEN default ELSE m[pairIndex(m, key)].val
pairSet(m, key, val) ==
  IF pairIndex(m, key) = 0
  THEN Append(m, [key |-> key, val |-> val])
  ELSE [i \in 1..Len(m) |-> IF m[i].key = key THEN [key |-> key, val |-> val] ELSE m[i]]

\* mutant of scanSettings: a depends-on directive is not read as a setting
RECURSIVE scanSettingsSkipsDirectives(_, _, _)
scanSettingsSkipsDirectives(content, i, settings) ==
  IF i > Len(content) THEN settings
  ELSE IF content[i].kind = "set"
       THEN scanSettingsSkipsDirectives(content, i + 1,
                                        pairSet(settings, content[i].a, content[i].b))
  ELSE scanSettingsSkipsDirectives(content, i + 1, settings)

\* extractSettings: the lines that match /^([^:]+):\s*(.+)$/
RECURSIVE scanSettings(_, _, _)
scanSettings(content, i, settings) ==
  IF i > Len(content) THEN settings
  ELSE IF content[i].kind = "set"
       THEN scanSettings(content, i + 1, pairSet(settings, content[i].a, content[i].b))
  ELSE IF content[i].kind = "dep"
       THEN scanSettings(content, i + 1, pairSet(settings, "depends-on", content[i].a))
  ELSE scanSettings(content, i + 1, settings)

extractSettings(content) == scanSettings(content, 1, <<>>)

valuesOf(seq) == {seq[i] : i \in 1..Len(seq)}

\* mutant of detectInRule: a conflict keeps the values it was first recorded with
RECURSIVE detectInRuleFrozen(_, _, _)
detectInRuleFrozen(ruleSettings, j, st) ==
  IF j > Len(ruleSettings) THEN st
  ELSE LET setting == ruleSettings[j].key
           all == Append(pairGet(st.settings, setting, <<>>), ruleSettings[j].val)
           settings == pairSet(st.settings, setting, all)
       IN detectInRuleFrozen(ruleSettings, j + 1,
            [settings |-> settings,
             conflicts |-> IF Cardinality(valuesOf(all)) > 1
                              /\ pairIndex(st.conflicts, setting) = 0
                           THEN pairSet(st.conflicts, setting, all)
                           ELSE st.conflicts])

\* detectConflicts, lines 162-183: st holds the maps settings and conflicts
RECURSIVE detectInRule(_, _, _)
detectInRule(ruleSettings, j, st) ==
  IF j > Len(ruleSettings) THEN st
  ELSE LET setting == ruleSettings[j].key
           all == Append(pairGet(st.settings, setting, <<>>), ruleSettings[j].val)
           settings == pairSet(st.settings, setting, all)
       IN detectInRule(ruleSettings, j + 1,
            [settings |-> settings,
             conflicts |-> IF Cardinality(valuesOf(all)) > 1
                           THEN pairSet(st.conflicts, setting, all)
                           ELSE st.conflicts])

RECURSIVE detectFrom(_, _, _)
detectFrom(rs, i, st) ==
  IF i > Len(rs) THEN st.conflicts
  ELSE detectFrom(rs, i + 1, detectInRule(extractSettings(rs[i].content), 1, st))

detectConflicts(rs) == detectFrom(rs, 1, [settings |-> <<>>, conflicts |-> <<>>])

\* composeContent, lines 217-221: a header, the content and a blank line per rule
RECURSIVE ruleBlocks(_)
ruleBlocks(rs) ==
  IF rs = <<>> THEN <<>>
  ELSE <<Line("header", Head(rs).id, "", Head(rs).priority)>> \o Head(rs).content
       \o <<Blank>> \o ruleBlocks(Tail(rs))

\* mutant of conflictBlock: the first value of the sequence is named as the resolution
conflictBlockFirstWins(c) ==
  <<Line("conflict", c.key, "", 0)>>
  \o [i \in 1..Len(c.val) |-> Line("value", c.val[i], "", i)]
  \o <<Line("resolution", c.val[1], "", 0), Blank>>

\* composeContent, lines 224-234: the conflict resolution section
conflictBlock(c) ==
  <<Line("conflict", c.key, "", 0)>>
  \o [i \in 1..Len(c.val) |-> Line("value", c.val[i], "", i)]
  \o <<Line("resolution", c.val[Len(c.val)], "", 0), Blank>>

RECURSIVE conflictBlocks(_)
conflictBlocks(conflicts) ==
  IF conflicts = <<>> THEN <<>>
  ELSE conflictBlock(Head(conflicts)) \o conflictBlocks(Tail(conflicts))

\* String.prototype.trim on the composed text: the trailing blank lines go
RECURSIVE trim(_)
trim(lines) ==
  IF lines /= <<>> /\ lines[Len(lines)] = Blank
  THEN trim(SubSeq(lines, 1, Len(lines) - 1))
  ELSE lines

composeContent(rs, conflicts) ==
  trim(ruleBlocks(rs)
       \o (IF Len(conflicts) > 0
           THEN <<Line("conflictTitle", "", "", 0)>> \o conflictBlocks(conflicts)
           ELSE <<>>))

\* createComposedRule, lines 255-260: the tags in the order they are first met
RECURSIVE uniqueTags(_, _)
uniqueTags(tags, found) ==
  IF tags = <<>> THEN found ELSE uniqueTags(Tail(tags), addUnique(found, Head(tags)))

RECURSIVE allTags(_)
allTags(rs) == IF rs = <<>> THEN <<>> ELSE Head(rs).tags \o allTags(Tail(rs))

\* Math.min(...rules.map((r) => r.priority || 0))
RECURSIVE minPriority(_)
minPriority(rs) ==
  IF Len(rs) = 1 THEN rs[1].priority
  ELSE Min(Head(rs).priority, minPriority(Tail(rs)))

composedId(uuid) == [prefix |-> "composed-rule-", uuid |-> uuid]

\* the texts `Composed from ${n} rule${s}${with k resolved conflicts}`
describe(n, conflicts) ==
  [text |-> "Composed from", rules |-> n, unit |-> IF n > 1 THEN "rules" ELSE "rule",
   conflicts |-> conflicts]

\* createComposedRule, lines 262-274
createComposedRule(rs, content, conflicts, uuid) ==
  [id |-> composedId(uuid),
   name |-> [text |-> "Composed Rule", rules |-> Len(rs)],
   type |-> rs[1].type,
   description |-> describe(Len(rs), Len(conflicts)),
   tags |-> uniqueTags(allTags(rs), <<>>),
   priority |-> minPriority(rs),
   content |-> IF content = <<>> THEN rs[1].content ELSE content]

\* mutant of singleRule: the single rule goes through the multi-rule path
singleRuleWrapped(rule, uuid) ==
  createComposedRule(<<rule>>, composeContent(<<rule>>, <<>>), <<>>, uuid)

\* compose, lines 48-56: the single-rule shortcut
singleRule(rule, uuid) ==
  [rule EXCEPT !.id = composedId(uuid), !.description = describe(1, 0)]

NoRule == [id |-> composedId(""), name |-> "", type |-> "", description |-> describe(0, 0),
           tags |-> <<>>, priority |-> 0, content |-> <<>>]
Rejected(error) == [status |-> "rejected", error |-> error, rule |-> NoRule]
Resolved(rule) == [status |-> "resolved", error |-> "", rule |-> rule]

\* compose, lines 38-74
compose(rs, uuid) ==
  IF Len(rs) = 0 THEN Rejected("No rules provided for composition")
  ELSE IF validateRules(rs) THEN Rejected("Invalid rule structure")
  ELSE IF Len(rs) = 1 THEN Resolved(singleRule(rs[1], uuid))
  ELSE IF checkCircularDependencies(rs) THEN Rejected("Circular dependency detected")
  ELSE LET sortedRules == sortRules(rs)
           conflicts == detectConflicts(sortedRules)
       IN Resolved(createComposedRule(sortedRules,
                                      composeContent(sortedRules, conflicts),
                                      conflicts, uuid))

(***************************************************************************)
(* The specification of compose: an input is drawn, compose is applied.    *)
(***************************************************************************)
DepTargets == <<"a", "b", "c", ExternalId>>

Contents ==
  {<<>>, <<Text("t")>>, <<DepEmpty>>, <<DepEmpty, Text("b")>>, <<DepEmpty, Dep("b")>>,
   <<Setting("x", "1")>>, <<Setting("x", "2")>>, <<Setting("x", "1"), Setting("x", "2")>>}
  \cup {<<Dep(DepTargets[i])>> : i \in 1..Len(DepTargets)}
  \cup {<<Dep(DepTargets[p[1]]), Dep(DepTargets[p[2]])>> :
          p \in {q \in (1..Len(DepTargets)) \X (1..Len(DepTargets)) : q[1] < q[2]}}

RuleMetas ==
  {[priority |-> 1, tags |-> <<"typescript">>],
   [priority |-> 2, tags |-> <<"typescript", "style">>],
   [priority |-> 2, tags |-> <<>>]}

MkRule(id, meta, content) ==
  [id |-> id, name |-> "Rule", type |-> "typescript-style", description |-> "A rule",
   tags |-> meta.tags, priority |-> meta.priority, content |-> content]

MkRules(n, metas, contents) ==
  [i \in 1..n |-> MkRule(RuleIds[i], metas[i], contents[i])]

\* rules of three priorities, each with a type and tags of its own
RankedMetas ==
  {[priority |-> 1, tags |-> <<"typescript">>, type |-> "typescript-style"],
   [priority |-> 2, tags |-> <<"style", "typescript">>, type |-> "style"],
   [priority |-> 3, tags |-> <<"testing">>, type |-> "testing"]}

MkRankedRules(n, metas, contents) ==
  [i \in 1..n |-> [MkRule(RuleIds[i], metas[i], contents[i]) EXCEPT !.type = metas[i].type]]

Uuids == {"u1", "u2"}

InitCacheIdle ==
  /\ config = constructorConfig([ttl |-> TickMs, maxSize |-> 1,
                                 compressionThreshold |-> 0, warmingStrategy |-> ""])
  /\ cache = <<>>
  /\ insertSeq = 0
  /\ metrics = ZeroMetrics
  /\ operationLock = 0
  /\ resolved = {0}
  /\ warmingInProgress = FALSE
  /\ ops = <<>>
  /\ calls = 0
  /\ now = 0
  /\ hist = <<>>
  /\ lastAccess = NoAccess

\* rules of which one lacks its id, type or name
DefectFields == {"id", "type", "name"}
DefectContents == {<<>>, <<Text("t")>>, <<Dep("a")>>, <<Dep("b")>>}
PlainMeta == [priority |-> 1, tags |-> <<"typescript">>]
withDefect(rs, i, field) == [rs EXCEPT ![i] = [rs[i] EXCEPT ![field] = ""]]

InitCompose ==
  /\ InitCacheIdle
  /\ \E n \in 0..Min(MaxRules, Len(RuleIds)) :
       \/ \E metas \in [1..n -> RuleMetas], contents \in [1..n -> Contents] :
            rules = MkRules(n, metas, contents)
       \/ \E contents \in [1..n -> DefectContents], i \in 1..n, field \in DefectFields :
            rules = withDefect(MkRules(n, [k \in 1..n |-> PlainMeta], contents), i, field)
       \/ \E metas \in [1..n -> RankedMetas], contents \in [1..n -> Contents] :
            /\ n >= 2
            /\ \A i, j \in 1..n : i /= j => metas[i] /= metas[j]
            /\ rules = MkRankedRules(n, metas, contents)
  /\ composed = [status |-> "idle", error |-> "", rule |-> NoRule]

\* the caller's array after a call that sorted it in place
inputSortedInPlace(rs) == sortRules(rs)

\* the caller's array after compose: the sort at lines 62-64 works on the copy
\* [...rules], and no statement of compose assigns to rules or to a rule
inputAfterCompose(rs) == rs

\* one call of compose; the caller may call again with the same array
Compose(uuid) ==
  /\ composed' = compose(rules, uuid)
  /\ rules' = inputAfterCompose(rules)
  /\ UNCHANGED <<config, cache, metrics, operationLock, resolved,
                 warmingInProgress, ops, calls, now, hist, lastAccess, insertSeq>>

NextCompose == \E uuid \in Uuids : Compose(uuid)

SpecCompose == InitCompose /\ [][NextCompose]_vars

(***************************************************************************)
(* A specification of construction: new CacheManager(config) with valid    *)
(* and invalid configurations, followed by calls on the instance when      *)
(* there is one.                                                           *)
(***************************************************************************)
\* an Error thrown to the caller; the message is kept in the field id
thrown(message) ==
  [kind |-> "Error", id |-> message, len |-> 0, bytes |-> 0, createdAt |-> MkDate(0)]

\* mutant of constructorError: maxSize is looked at before ttl
constructorErrorSizeFirst(cfg) ==
  IF cfg.maxSize <= 0 THEN "maxSize must be a positive number"
  ELSE IF cfg.ttl <= 0 THEN "TTL must be a positive number"
  ELSE ""

\* constructor, lines 57-62: the message of the error thrown, "" when none is
constructorError(cfg) ==
  IF cfg.ttl <= 0 THEN "TTL must be a positive number"
  ELSE IF cfg.maxSize <= 0 THEN "maxSize must be a positive number"
  ELSE ""

ConstructInputs ==
  [ttl : {0 - 1, 0, 1, MsPerSecond}, maxSize : {0 - 1, 0, 1, MaxCap},
   compressionThreshold : {0, TestThreshold},
   warmingStrategy : {"", PREDICTIVE, PRIORITY}]

\* the fields of an object whose constructor has not assigned them yet
NoMetrics == [hits |-> 0 - 1, misses |-> 0 - 1, compressionRatio |-> [num |-> 0 - 1, den |-> 1]]

\* before the call: config holds the argument, no lock promise exists
InitConstruct ==
  /\ config \in ConstructInputs
  /\ cache = <<>>
  /\ insertSeq = 0
  /\ metrics = NoMetrics
  /\ operationLock = 0 - 1
  /\ resolved = {}
  /\ warmingInProgress = FALSE
  /\ ops = <<>>
  /\ calls = 0
  /\ now = 0
  /\ hist = <<>>
  /\ lastAccess = NoAccess
  /\ InitComposerIdle

\* an instance exists: its lock is the resolved promise of line 77
Constructed == resolved /= {}

constructorCall == [id |-> 0, op |-> "constructor", key |-> "", value |-> NullValue,
                    priority |-> 0]

\* new CacheManager(config), lines 56-79
Construct ==
  /\ hist = <<>>
  /\ ~Constructed
  /\ IF constructorError(config) /= ""
     THEN /\ hist' = <<record(constructorCall, thrown(constructorError(config)), 0, TRUE,
                              "", DateNow)>>
          /\ UNCHANGED <<config, cache, metrics, operationLock, resolved>>
     ELSE /\ cache' = <<>>
          /\ config' = constructorConfig(config)
          /\ metrics' = ZeroMetrics
          /\ operationLock' = 0
          /\ resolved' = {0}
          /\ hist' = <<record(constructorCall, NullValue, 0, FALSE, "", DateNow)>>
  /\ UNCHANGED <<warmingInProgress, ops, calls, now, lastAccess, insertSeq, rules, composed>>

NextConstruct ==
  \/ Construct
  \/ \E op \in {"getSize", "getMetrics"} : Constructed /\ CallSimple(op)
  \/ \E i \in 1..Len(ops) : GetSizeBody(i)
  \/ \E i \in 1..Len(ops) : GetMetricsBody(i)

SpecConstruct == InitConstruct /\ [][NextConstruct]_vars

(***************************************************************************)
(* A specification of concurrent callers: caller c runs set(key, rule) and *)
(* then get(key) on its own key, as the operations of the test "should     *)
(* handle concurrent access safely" do; the cache has room for every key   *)
(* and the clock stands still.                                             *)
(***************************************************************************)
NumCallers == 3
FifoKeys == <<"k1", "k2", "k3">>
Callers == 1..Min(NumCallers, Len(FifoKeys))

\* the rule of a caller carries the caller's key as its id
callerRules(c) == {MkRuleValue(FifoKeys[c], len) : len \in {100, 200}}

pendingOps == {ops[i] : i \in 1..Len(ops)}

\* caller c has called set, and has called get
setCalled(c) ==
  \/ \E o \in pendingOps : o.op = "set" /\ o.key = FifoKeys[c]
  \/ mapHas(cache, FifoKeys[c])
getCalled(c) ==
  \/ \E o \in pendingOps : o.op = "get" /\ o.key = FifoKeys[c]
  \/ \E i \in 1..Len(hist) : hist[i].op = "get" /\ hist[i].key = FifoKeys[c]
  \/ mapHas(cache, FifoKeys[c]) /\ mapGet(cache, FifoKeys[c]).accessCount > 0

InitFifo ==
  /\ config \in {constructorConfig(cfg) :
                   cfg \in [ttl : {TickMs}, maxSize : {Len(FifoKeys), Len(FifoKeys) + 1},
                            compressionThreshold : {TestThreshold},
                            warmingStrategy : {""}]}
  /\ cache = <<>>
  /\ insertSeq = 0
  /\ metrics = ZeroMetrics
  /\ operationLock = 0
  /\ resolved = {0}
  /\ warmingInProgress = FALSE
  /\ ops = <<>>
  /\ calls = 0
  /\ now = 0
  /\ hist = <<>>
  /\ lastAccess = NoAccess
  /\ InitComposerIdle

\* await cache.set(rule.id, rule), base priority 0 by default
CallerSet(c) ==
  /\ ~setCalled(c)
  /\ calls < 2 * NumCallers
  /\ \E value \in callerRules(c) : enqueue("set", FifoKeys[c], value, 0)
  /\ UNCHANGED <<config, cache, metrics, resolved, warmingInProgress, now, hist,
                 lastAccess, insertSeq, rules, composed>>

\* cache.get(rule.id), called once the caller's set has been called
CallerGet(c) ==
  /\ setCalled(c)
  /\ ~getCalled(c)
  /\ calls < 2 * NumCallers
  /\ enqueue("get", FifoKeys[c], NullValue, 0)
  /\ UNCHANGED <<config, cache, metrics, resolved, warmingInProgress, now, hist,
                 lastAccess, insertSeq, rules, composed>>

NextFifo ==
  \/ \E c \in Callers : CallerSet(c)
  \/ \E c \in Callers : CallerGet(c)
  \/ \E i \in 1..Len(ops) : GetBody(i)
  \/ \E i \in 1..Len(ops) : GetResume(i)
  \/ \E i \in 1..Len(ops) : SetBody(i)
  \/ \E i \in 1..Len(ops) : SetResume(i)

SpecFifo == InitFifo /\ [][NextFifo]_vars

(***************************************************************************)
(* A specification with failing bodies and with fairness: the stored       *)
(* payload of a compressed entry may be corrupt, so the inflate awaited by *)
(* get may reject.  Every continuation that is ready to run is run by the  *)
(* event loop, hence weak fairness of every body and resume step; callers  *)
(* and the clock are under no obligation.                                  *)
(***************************************************************************)
\* mutant of GetResumeFails: the rejection leaves the call's promise unresolved
GetResumeFailsHoldsLock(i) ==
  /\ ops[i].op = "get"
  /\ ops[i].pc = "decompress"
  /\ access(i, "resume")
  /\ ops' = removeAt(ops, i)
  /\ hist' = remember(hist, record(ops[i], thrown("Z_DATA_ERROR"), 0, TRUE, "", ops[i].at))
  /\ UNCHANGED <<config, cache, metrics, operationLock, resolved, warmingInProgress,
                 calls, now, insertSeq, rules, composed>>

\* get, line 203 with withLock, lines 88-93: the awaited decompressValue
\* rejects, the error leaves operation() and the finally block resolves the lock
GetResumeFails(i) ==
  /\ ops[i].op = "get"
  /\ ops[i].pc = "decompress"
  /\ access(i, "resume")
  /\ release(i, thrown("Z_DATA_ERROR"), 0, TRUE, "", ops[i].at)
  /\ UNCHANGED <<config, cache, metrics, operationLock, warmingInProgress, calls,
                 now, insertSeq, rules, composed>>

\* a cache that holds a compressed entry k1 and, with room for it, a plain k2
InitLive ==
  /\ config \in {constructorConfig(cfg) : cfg \in ConfigInputs}
  /\ \E n \in 1..config.maxSize :
       LET first == setInsert(<<>>, "k1", compressValue(largeRule), TRUE,
                              serializedSize(largeRule), 1, 0, config, 0)
       IN cache = IF n = 1 THEN first
                  ELSE setInsert(first, "k2", smallRule, FALSE, serializedSize(smallRule),
                                 1, 0, config, 1)
  /\ insertSeq = Len(cache)
  /\ metrics = ZeroMetrics
  /\ operationLock = 0
  /\ resolved = {0}
  /\ warmingInProgress = FALSE
  /\ ops = <<>>
  /\ calls = 0
  /\ now = 0
  /\ hist = <<>>
  /\ lastAccess = NoAccess
  /\ InitComposerIdle

\* the calls and steps of Next at a clock that stands still
NextLive ==
  \/ \E key \in Keys : CallGet(key)
  \/ \E key \in Keys, value \in CacheValues, priority \in Prios : CallSet(key, value, priority)
  \/ \E key \in Keys : CallDelete(key)
  \/ \E op \in {"clear", "getSize", "getMetrics"} : CallSimple(op)
  \/ CallWarm
  \/ \E i \in 1..Len(ops) : GetBody(i)
  \/ \E i \in 1..Len(ops) : GetResume(i)
  \/ \E i \in 1..Len(ops) : GetResumeFails(i)
  \/ \E i \in 1..Len(ops) : SetBody(i)
  \/ \E i \in 1..Len(ops) : SetResume(i)
  \/ \E i \in 1..Len(ops) : DeleteBody(i)
  \/ \E i \in 1..Len(ops) : ClearBody(i)
  \/ \E i \in 1..Len(ops) : GetSizeBody(i)
  \/ \E i \in 1..Len(ops) : GetMetricsBody(i)
  \/ \E i \in 1..Len(ops) : WarmBody(i)

Continuations ==
  /\ WF_vars(\E i \in 1..Len(ops) : GetBody(i))
  /\ WF_vars(\E i \in 1..Len(ops) : GetResume(i) \/ GetResumeFails(i))
  /\ WF_vars(\E i \in 1..Len(ops) : SetBody(i))
  /\ WF_vars(\E i \in 1..Len(ops) : SetResume(i))
  /\ WF_vars(\E i \in 1..Len(ops) : DeleteBody(i))
  /\ WF_vars(\E i \in 1..Len(ops) : ClearBody(i))
  /\ WF_vars(\E i \in 1..Len(ops) : GetSizeBody(i))
  /\ WF_vars(\E i \in 1..Len(ops) : GetMetricsBody(i))
  /\ WF_vars(\E i \in 1..Len(ops) : WarmBody(i))

SpecLive == InitLive /\ [][NextLive]_vars /\ Continuations

(***************************************************************************)
(* Claims                                                                  *)
(***************************************************************************)
Last(h) == h[Len(h)]
entryOf(c, key) == mapGet(c, key)
keysOf(c) == {c[i].key : i \in 1..Len(c)}

\* C1: whatever calls are issued, awaited or not, the cache never holds more
\* than maxSize entries.
C1_SizeBound == Len(cache) <= config.maxSize

\* a set that had to evict has completed while another call was already queued
C1_Witness ==
  /\ hist /= <<>>
  /\ Last(hist).op = "set"
  /\ Last(hist).evicted /= ""
  /\ Len(cache) = config.maxSize
  /\ Len(ops) >= 1

\* at most one call is inside its body
MutualExclusion == Cardinality({i \in 1..Len(ops) : inBody(ops[i])}) <= 1

\* C2 as stated: bodies never overlap and every access of a public operation
\* to the instance's state is made inside the locked section.
C2_AllInsideLock ==
  /\ MutualExclusion
  /\ ~lastAccess.overlap
  /\ lastAccess.inLock

\* C2 amended: bodies never overlap and every access is made inside the locked
\* section, except that warm reads warmingInProgress in its guard before it
\* takes the lock, and that read always yields false.
C2_BodiesSerialized ==
  /\ MutualExclusion
  /\ lastAccess.phase /= "guard" => (lastAccess.inLock /\ ~lastAccess.overlap)
  /\ lastAccess.phase = "guard" => (lastAccess.op = "warm" /\ ~lastAccess.saw)
  /\ ~warmingInProgress

\* a set is suspended in its compression, inside its body, while a later call
\* waits on the lock
C2_Witness ==
  \E i, j \in 1..Len(ops) :
    /\ inBody(ops[i])
    /\ lastAccess.id = ops[i].id
    /\ lastAccess.inLock
    /\ ops[j].pc = "await"
    /\ ops[j].cur = ops[i].id

SetThenGet ==
  /\ Len(hist) = 2
  /\ hist[1].op = "set"
  /\ hist[2].op = "get"
  /\ hist[2].key = hist[1].key
  /\ hist[2].at - hist[1].at < config.ttl

\* C3 as stated: set(k, v, p) immediately followed by get(k), less than ttl
\* later, returns v.
C3_SetGet == SetThenGet => hist[2].result = hist[1].value

\* C3 amended: set(k, v, p) immediately followed by get(k) returns v unless the
\* set dropped its item; a set drops its item only when maxSize is 1 and the
\* resident entry has a base priority strictly greater than p.
C3_SetGetUnlessDropped ==
  /\ (SetThenGet /\ ~hist[1].flag) => (hist[2].flag /\ hist[2].result = hist[1].value)
  /\ (hist /= <<>> /\ Last(hist).op = "set" /\ Last(hist).flag) =>
        /\ config.maxSize = 1
        /\ Len(cache) = 1
        /\ cache[1].priority > Last(hist).priority

\* a set that overwrote a resident key with another value was read back
C3_Witness ==
  /\ SetThenGet
  /\ ~hist[1].flag
  /\ hist[1].value /= smallRule
  /\ hist[2].result = hist[1].value
  /\ hist[1].key = "k1"
  /\ insertSeq >= 2

\* the step in which the body of a get looks its key up
GetLookup ==
  /\ lastAccess' /= lastAccess
  /\ lastAccess'.op = "get"
  /\ lastAccess'.phase = "body"

\* the call whose body ran in this step, if it has returned
Returned == hist' /= hist /\ Last(hist').id = lastAccess'.id

GetMissStep(key) ==
  /\ metrics'.misses = metrics.misses + 1
  /\ metrics'.hits = metrics.hits
  /\ Returned
  /\ Last(hist').result = NullValue
  /\ cache' = SelectSeq(cache, LAMBDA e : e.key /= key)

GetHitStep(key) ==
  /\ metrics'.hits = metrics.hits + 1
  /\ metrics'.misses = metrics.misses
  /\ keysOf(cache') = keysOf(cache)
  /\ IF entryOf(cache, key).compressed
     THEN \E i \in 1..Len(ops') :
            /\ ops'[i].id = lastAccess'.id
            /\ decompressValue(ops'[i].buf).id = entryOf(cache, key).value.id
     ELSE Returned /\ Last(hist').result = entryOf(cache, key).value

\* C4: get(k) is a miss exactly when k is not resident or the time is strictly
\* later than the entry's expiresAt; a miss returns null, adds 1 to misses,
\* leaves hits alone and removes the stale entry; otherwise the entry is returned.
C4_GetMiss ==
  [][GetLookup =>
       LET key == lastAccess'.key IN
       IF key \notin keysOf(cache) \/ DateNow > entryOf(cache, key).expiresAt
       THEN GetMissStep(key)
       ELSE GetHitStep(key)]_vars

\* a get found its entry stale and removed it, and a get read an entry at
\* exactly its deadline
C4_Witness ==
  /\ Len(hist) = 2
  /\ hist[1].op = "get" /\ hist[1].flag /\ hist[1].at = config.ttl
  /\ hist[2].op = "get" /\ ~hist[2].flag /\ hist[2].evicted = hist[2].key
  /\ metrics.misses = 1 /\ metrics.hits = 1

(***************************************************************************)
(* The eviction step                                                       *)
(***************************************************************************)
entriesOf(c) == {c[i] : i \in 1..Len(c)}

\* the step in which a set reaches its eviction step and returns
SetStep ==
  /\ hist' /= hist
  /\ Last(hist').op = "set"
  /\ lastAccess'.id = Last(hist').id

AtCapacity == Len(cache) >= config.maxSize

\* max(1, seconds since lastAccessed), in milliseconds
ageOf(e) == IF DateNow - e.lastAccessed > MsPerSecond
            THEN DateNow - e.lastAccessed ELSE MsPerSecond

\* x ranks strictly before y: lower base priority, or the same base priority
\* and a lower score (accessCount / age) * priority
ranksBefore(x, y) ==
  \/ x.priority < y.priority
  \/ /\ x.priority = y.priority
     /\ x.accessCount * x.priority * ageOf(y) < y.accessCount * y.priority * ageOf(x)

firstRanked(e) == \A x \in entriesOf(cache) : ~ranksBefore(x, e)

secondRanked(e) ==
  \E f \in entriesOf(cache) :
    /\ f.key /= e.key
    /\ firstRanked(f)
    /\ \A x \in entriesOf(cache) : (x.key /= f.key) => ~ranksBefore(x, e)

\* the set of this step removed e and inserted its own key; nothing else changed
EvictedAndInserted(e) ==
  LET done == Last(hist') IN
  /\ keysOf(cache') = (keysOf(cache) \ {e.key}) \cup {done.key}
  /\ entryOf(cache', done.key).value = done.value
  /\ entryOf(cache', done.key).priority = done.priority
  /\ \A x \in entriesOf(cache) : x.key \notin {e.key, done.key} => x \in entriesOf(cache')

\* C5: at capacity, the entries are ranked by base priority and then by score;
\* if p >= the base priority of the first-ranked entry, that entry is evicted
\* and k inserted; otherwise if there are two entries the second-ranked one is
\* evicted and k inserted; otherwise nothing changes.
C5_EvictionStep ==
  [][(SetStep /\ AtCapacity) =>
       IF \E e \in entriesOf(cache) : firstRanked(e) /\ Last(hist').priority >= e.priority
       THEN \E e \in entriesOf(cache) : firstRanked(e) /\ EvictedAndInserted(e)
       ELSE IF Len(cache) >= 2
            THEN \E e \in entriesOf(cache) : secondRanked(e) /\ EvictedAndInserted(e)
            ELSE cache' = cache]_vars

\* the score decided: of three entries with one base priority the entry that
\* was read last was kept and a later key of the map was evicted
C5_Witness ==
  /\ Len(hist) = 2
  /\ hist[1].op = "get" /\ hist[1].key = "k1" /\ hist[1].flag
  /\ hist[2].op = "set" /\ hist[2].key = "k4" /\ hist[2].evicted = "k3"
  /\ Len(cache) = 3
  /\ \A i \in 1..Len(cache) : cache[i].priority = hist[2].priority
  /\ entryOf(cache, "k2").accessCount = 1
  /\ entryOf(cache, "k2").lastAccessed < entryOf(cache, "k1").lastAccessed

\* the entries that the set of this step pushed out of the cache
Evicted == {e \in entriesOf(cache) : e.key \notin keysOf(cache')}

\* C6 as stated: a set at capacity never evicts an entry whose base priority is
\* strictly higher than the incoming priority while another resident entry has
\* a strictly lower base priority than that entry.
C6_RespectsPriorities ==
  [][(SetStep /\ AtCapacity) =>
       \A e \in Evicted :
         ~(/\ e.priority > Last(hist').priority
           /\ \E x \in entriesOf(cache) : x.key /= e.key /\ x.priority < e.priority)]_vars

\* C6 amended: a set at capacity never evicts an entry whose base priority is
\* strictly higher than the incoming priority while another resident entry has
\* a base priority that is not higher than the incoming priority.
C6_RespectsIncoming ==
  [][(SetStep /\ AtCapacity) =>
       \A e \in Evicted :
         ~(/\ e.priority > Last(hist').priority
           /\ \E x \in entriesOf(cache) :
                x.key /= e.key /\ x.priority <= Last(hist').priority)]_vars

\* a set at capacity evicted an entry of lower priority and the entry of
\* higher priority than the incoming item stayed
C6_Witness ==
  /\ hist /= <<>>
  /\ Last(hist).op = "set"
  /\ Last(hist).evicted \notin {"", Last(hist).key}
  /\ Len(cache) >= 2
  /\ \E i \in 1..Len(cache) : cache[i].priority > Last(hist).priority
  /\ \E i \in 1..Len(cache) : cache[i].key = Last(hist).key /\ cache[i].seq = insertSeq

\* the case of C7: a full cache of entries of one base priority that were
\* never read, and a set of a new key with that priority
FifoCase ==
  /\ SetStep
  /\ Len(cache) = config.maxSize
  /\ Last(hist').key \notin keysOf(cache)
  /\ \A e \in entriesOf(cache) : e.accessCount = 0 /\ e.priority = Last(hist').priority

NewKeyRetrievable ==
  /\ Len(cache') = config.maxSize
  /\ Last(hist').key \in keysOf(cache')
  /\ entryOf(cache', Last(hist').key).value = Last(hist').value
  /\ ~(DateNow > entryOf(cache', Last(hist').key).expiresAt)

\* C7 as stated: the entry that was inserted earliest is evicted, the size
\* stays maxSize and the new key is retrievable.
C7_EvictsEarliestInserted ==
  [][FifoCase =>
       /\ \E e \in Evicted : \A x \in entriesOf(cache) : e.seq <= x.seq
       /\ NewKeyRetrievable]_vars

\* C7 amended: the entry whose key is first in the map's insertion order is
\* evicted (a key that was set again while resident keeps its place), the size
\* stays maxSize and the new key is retrievable.
C7_EvictsFirstKey ==
  [][FifoCase =>
       /\ Evicted = {cache[1]}
       /\ NewKeyRetrievable]_vars

\* a full cache of three unread entries of one priority took a fourth key
C7_Witness ==
  /\ hist /= <<>>
  /\ Last(hist).op = "set"
  /\ Last(hist).key = "k4"
  /\ Last(hist).evicted = "k1"
  /\ config.maxSize = 3
  /\ Len(cache) = 3
  /\ \A i \in 1..Len(cache) : cache[i].accessCount = 0 /\ cache[i].priority = Last(hist).priority

(***************************************************************************)
(* compose                                                                 *)
(***************************************************************************)
inputIds == {rules[i].id : i \in 1..Len(rules)}

\* the rule is structurally valid: id, type, name and content are not empty
validRule(r) == r.id /= "" /\ r.type /= "" /\ r.name /= "" /\ r.content /= <<>>
ValidInput == Len(rules) >= 1 /\ \A i \in 1..Len(rules) : validRule(rules[i])

\* the ids that the depends-on directives of a rule name
declared(r) == {r.content[j].a : j \in {k \in 1..Len(r.content) : r.content[k].kind = "dep"}}

\* the input rule ids that id depends on, directly
dependsOn(id) == UNION {declared(rules[i]) : i \in {k \in 1..Len(rules) : rules[k].id = id}}

\* the ids reached from the ids of S by at most n further directives
RECURSIVE reach(_, _)
reach(S, n) ==
  IF n = 0 THEN S ELSE reach(S \cup UNION {dependsOn(id) : id \in S}, n - 1)

\* the directives form a cycle among the input rule ids
Cyclic == \E id \in inputIds : id \in reach(dependsOn(id), Len(rules))

Composed == composed.status /= "idle"

\* C8: a structurally valid input of one or more rules whose depends-on
\* directives form a cycle is rejected with the circular-dependency error.
C8_CycleRejected ==
  (Composed /\ ValidInput /\ Cyclic) =>
     (composed.status = "rejected" /\ composed.error = "Circular dependency detected")

tagsOfInput == UNION {valuesOf(rules[i].tags) : i \in 1..Len(rules)}

\* C9: a non-empty valid input whose depends-on directives form no cycle is
\* composed without error into one rule with the least priority of the inputs
\* and the de-duplicated union of their tags.
C9_AcyclicComposed ==
  (Composed /\ ValidInput /\ ~Cyclic) =>
     /\ composed.status = "resolved"
     /\ \E i \in 1..Len(rules) : composed.rule.priority = rules[i].priority
     /\ \A i \in 1..Len(rules) : composed.rule.priority <= rules[i].priority
     /\ valuesOf(composed.rule.tags) = tagsOfInput
     /\ Cardinality(valuesOf(composed.rule.tags)) = Len(composed.rule.tags)

\* C10: compose of one valid rule A returns A's content without a header,
\* A's name, type, tags and priority, an id that starts with composed-rule-
\* and the description "Composed from 1 rule".
C10_SingleRule ==
  (Composed /\ ValidInput /\ Len(rules) = 1) =>
     /\ composed.status = "resolved"
     /\ composed.rule.content = rules[1].content
     /\ composed.rule.name = rules[1].name
     /\ composed.rule.type = rules[1].type
     /\ composed.rule.tags = rules[1].tags
     /\ composed.rule.priority = rules[1].priority
     /\ composed.rule.id.prefix = "composed-rule-"
     /\ composed.rule.description =
          [text |-> "Composed from", rules |-> 1, unit |-> "rule", conflicts |-> 0]

\* one rule with a directive and two tags has been composed
C10_Witness ==
  /\ Len(rules) = 1
  /\ rules[1].content = <<Dep(ExternalId)>>
  /\ Len(rules[1].tags) = 2
  /\ composed.status = "resolved"
  /\ composed.rule.content = <<Dep(ExternalId)>>

\* the positions of the header lines in a composed content
headerPositions(content) == {i \in 1..Len(content) : content[i].kind = "header"}

\* the position in the input of the rule with this id
inputPosition(id) == CHOOSE i \in 1..Len(rules) : rules[i].id = id

MultiComposed == Len(rules) >= 2 /\ composed.status = "resolved"

\* C11: in a multi-rule composition every input rule has one block, its header
\* followed by its content; the blocks stand in non-increasing order of
\* priority number, and blocks of equal priority stand in input order.
C11_BlocksByPriority ==
  MultiComposed =>
    LET content == composed.rule.content
        at == headerPositions(content)
    IN /\ {content[h].a : h \in at} = inputIds
       /\ Cardinality(at) = Len(rules)
       /\ \A h \in at :
            LET r == rules[inputPosition(content[h].a)]
            IN /\ content[h].n = r.priority
               /\ h + Len(r.content) <= Len(content)
               /\ SubSeq(content, h + 1, h + Len(r.content)) = r.content
       /\ \A h, k \in at :
            h < k =>
              \/ content[h].n > content[k].n
              \/ /\ content[h].n = content[k].n
                 /\ inputPosition(content[h].a) < inputPosition(content[k].a)

\* three rules given with priorities 1, 2, 2 were composed: the blocks stand
\* in the order second, third, first
C11_Witness ==
  /\ MultiComposed
  /\ Len(rules) = 3
  /\ rules[1].priority = 1 /\ rules[2].priority = 2 /\ rules[3].priority = 2
  /\ composed.rule.content[1] = Line("header", "b", "", 2)
  /\ \E h, k \in headerPositions(composed.rule.content) :
       /\ h < k
       /\ composed.rule.content[h].a = "c"
       /\ composed.rule.content[k].a = "a"

\* the lines of the form key: value of a rule, and the key of such a line
isSettingLine(line) == line.kind \in {"set", "dep"}
settingValue(line) == IF line.kind = "set" THEN line.b ELSE line.a
settingLines(r, key) ==
  {j \in 1..Len(r.content) : isSettingLine(r.content[j]) /\ firstField(r.content[j]) = key}

settingKeys ==
  UNION {{firstField(rules[i].content[j]) :
            j \in {k \in 1..Len(rules[i].content) : isSettingLine(rules[i].content[k])}} :
         i \in 1..Len(rules)}

\* the input rules that define the key, and the value a rule gives it (the
\* last line of the rule with that key)
definers(key) == {i \in 1..Len(rules) : settingLines(rules[i], key) /= {}}
ruleValue(i, key) ==
  LET at == settingLines(rules[i], key)
      last == CHOOSE j \in at : \A k \in at : k <= j
  IN settingValue(rules[i].content[last])

\* rule i stands before rule j in sort order
sortsBefore(i, j) ==
  \/ rules[i].priority > rules[j].priority
  \/ rules[i].priority = rules[j].priority /\ i < j

\* the conflict section of the composed content: the position of a key's
\* conflict line, the values listed for it and the value named as resolution
conflictKeys ==
  {composed.rule.content[p].a :
     p \in {q \in 1..Len(composed.rule.content) : composed.rule.content[q].kind = "conflict"}}
conflictAt(key) ==
  CHOOSE p \in 1..Len(composed.rule.content) :
    composed.rule.content[p].kind = "conflict" /\ composed.rule.content[p].a = key
listedCount(key) ==
  Cardinality({n \in 1..Len(rules) :
     /\ conflictAt(key) + n <= Len(composed.rule.content)
     /\ composed.rule.content[conflictAt(key) + n].kind = "value"
     /\ composed.rule.content[conflictAt(key) + n].n = n})
listedValue(key, n) == composed.rule.content[conflictAt(key) + n].a
resolutionOf(key) == composed.rule.content[conflictAt(key) + listedCount(key) + 1]

\* C12: for every key recorded as a conflict, the value named as the
\* resolution is the value given by a rule whose priority number is the
\* smallest among the input rules that define the key.
C12_ResolutionFromHighestPrecedence ==
  MultiComposed =>
    \A key \in conflictKeys :
      /\ resolutionOf(key).kind = "resolution"
      /\ \E i \in definers(key) :
           /\ \A j \in definers(key) : rules[i].priority <= rules[j].priority
           /\ resolutionOf(key).a = ruleValue(i, key)

\* x: 1 from a rule of priority 1 and x: 2 from a rule of priority 2, given in
\* that order, were composed: the resolution of x is 1
C12_Witness ==
  /\ MultiComposed
  /\ Len(rules) = 2
  /\ rules[1].priority = 1 /\ rules[1].content = <<Setting("x", "1")>>
  /\ rules[2].priority = 2 /\ rules[2].content = <<Setting("x", "2")>>
  /\ "x" \in conflictKeys
  /\ listedValue("x", 1) = "2"
  /\ resolutionOf("x") = Line("resolution", "1", "", 0)

\* C13: a key is recorded as a conflict exactly when the input rules give it
\* more than one distinct value, and the values listed for a conflicting key
\* are the values of all the rules that define it, in sort order.
C13_ConflictsRecorded ==
  MultiComposed =>
    /\ conflictKeys \subseteq settingKeys
    /\ composed.rule.description.conflicts = Cardinality(conflictKeys)
    /\ \A key \in settingKeys :
         /\ key \in conflictKeys <=>
              Cardinality({ruleValue(i, key) : i \in definers(key)}) > 1
         /\ key \in conflictKeys =>
              /\ listedCount(key) = Cardinality(definers(key))
              /\ \A i \in definers(key) :
                   listedValue(key, 1 + Cardinality({j \in definers(key) : sortsBefore(j, i)}))
                     = ruleValue(i, key)

\* three rules gave x the values 1, 2 and 1 again: the conflict found at the
\* second rule also lists the value of the third
C13_Witness ==
  /\ MultiComposed
  /\ Len(rules) = 3
  /\ \A i \in 1..3 : rules[i].priority = 2
  /\ rules[1].content = <<Setting("x", "1")>>
  /\ rules[2].content = <<Setting("x", "2")>>
  /\ rules[3].content = <<Setting("x", "1")>>
  /\ listedCount("x") = 3
  /\ listedValue("x", 3) = "1"

\* C14: compose of no rules is rejected with the empty-input error; compose
\* of rules of which one, at any position, has an empty id, type, name or
\* content is rejected with the invalid-structure error, also when the
\* directives form a cycle; a rejection returns no rule.
C14_InputValidated ==
  Composed =>
    /\ Len(rules) = 0 =>
         (composed.status = "rejected"
          /\ composed.error = "No rules provided for composition")
    /\ (Len(rules) >= 1 /\ ~ValidInput) =>
         (composed.status = "rejected" /\ composed.error = "Invalid rule structure")
    /\ composed.status = "rejected" => composed.rule = NoRule

\* two rules that depend on each other, the second without a name, were
\* rejected for their structure
C14_Witness ==
  /\ Len(rules) = 2
  /\ rules[1].content = <<Dep("b")>>
  /\ rules[2].content = <<Dep("a")>>
  /\ rules[2].name = ""
  /\ validRule(rules[1])
  /\ Cyclic
  /\ composed.status = "rejected"
  /\ composed.error = "Invalid rule structure"

(***************************************************************************)
(* warm                                                                    *)
(***************************************************************************)
\* the step in which the body of a warm runs
WarmStep ==
  /\ lastAccess' /= lastAccess
  /\ lastAccess'.op = "warm"
  /\ lastAccess'.phase = "body"

expiredNow(e) == DateNow > e.expiresAt
usageScore(e) == e.accessCount * e.priority
qualifies(e) == ~expiredNow(e) /\ usageScore(e) > 0
qualifying == {e \in entriesOf(cache) : qualifies(e)}

\* C15: when a warm of a usage-based cache has run, no entry that was expired
\* or had the score accessCount * priority = 0 is resident any more.
C15_StaleAndUnreadGone ==
  [][WarmStep =>
       \A e \in entriesOf(cache) :
         (expiredNow(e) \/ usageScore(e) = 0) => e.key \notin keysOf(cache')]_vars

\* max(min(2, n), ceil(0.2 * n))
keptNumber(n) ==
  LET floor2 == IF n < 2 THEN n ELSE 2
      fifth == (n + 4) \div 5
  IN IF floor2 > fifth THEN floor2 ELSE fifth

\* C16: when n >= 1 entries qualify, the keys resident after the warm are
\* exactly those of max(min(2, n), ceil(0.2 n)) qualifying entries, none of
\* which has a lower score than a qualifying entry that was not kept.
C16_KeepsTopScores ==
  [][(WarmStep /\ qualifying /= {}) =>
       \E kept \in SUBSET qualifying :
         /\ Cardinality(kept) = keptNumber(Cardinality(qualifying))
         /\ \A e \in kept, f \in qualifying \ kept : usageScore(e) >= usageScore(f)
         /\ keysOf(cache') = {e.key : e \in kept}]_vars

\* a warm is effective when some entry is not expired and has been read
EffectiveWarm ==
  /\ WarmStep
  /\ \E e \in entriesOf(cache) : ~expiredNow(e) /\ e.accessCount > 0

\* C17: every entry kept by an effective warm has expiresAt = time of the
\* warm + ttl and accessCount = 1 and keeps its value, base priority,
\* compressed flag and size; no warm changes hits or misses.
C17_KeptEntriesRefreshed ==
  [][/\ EffectiveWarm =>
          \A x \in entriesOf(cache') :
            /\ x.key \in keysOf(cache)
            /\ x.expiresAt = DateNow + config.ttl
            /\ x.accessCount = 1
            /\ x.value = entryOf(cache, x.key).value
            /\ x.priority = entryOf(cache, x.key).priority
            /\ x.compressed = entryOf(cache, x.key).compressed
            /\ x.size = entryOf(cache, x.key).size
     /\ WarmStep =>
          (metrics'.hits = metrics.hits /\ metrics'.misses = metrics.misses)]_vars

\* a warm that ran after time had passed kept two entries, one of them
\* compressed, of a cache whose entries had been read three times or more
C17_Witness ==
  /\ hist /= <<>>
  /\ Last(hist).op = "warm"
  /\ Last(hist).flag
  /\ Last(hist).at > 0
  /\ Len(cache) = 2
  /\ \E i \in 1..2 : cache[i].compressed
  /\ \A i \in 1..2 : cache[i].accessCount = 1
                     /\ cache[i].expiresAt = Last(hist).at + config.ttl
  /\ metrics.hits >= 3

\* C18: with a warming strategy other than usage-based, warm changes neither
\* the entries nor the metrics; a cache constructed without a strategy is
\* usage-based.
C18_OtherStrategiesNoOp ==
  [][/\ config.warmingStrategy /= USAGE_BASED =>
          (cache' = cache /\ metrics' = metrics /\ ~WarmStep)
     /\ \A cfg \in WarmConfigInputs :
          cfg.warmingStrategy = "" =>
             constructorConfig(cfg).warmingStrategy = USAGE_BASED]_vars

\* warm was called on a predictive cache and returned; an entry that was read
\* twice still has its access count
C18_Witness ==
  /\ config.warmingStrategy = PREDICTIVE
  /\ hist /= <<>>
  /\ Last(hist).op = "warm"
  /\ ops = <<>>
  /\ \E i \in 1..Len(cache) : cache[i].accessCount = 2

(***************************************************************************)
(* Metrics                                                                 *)
(***************************************************************************)
\* the step in which the body of a clear runs
ClearStep ==
  /\ lastAccess' /= lastAccess
  /\ lastAccess'.op = "clear"
  /\ lastAccess'.phase = "body"

\* the gets in the history of completed calls that no clear follows
getsSinceClear ==
  Cardinality({i \in 1..Len(hist) :
     /\ hist[i].op = "get"
     /\ \A j \in i..Len(hist) : hist[j].op /= "clear"})

\* every completed call is in the history, and no get is suspended in its body
HistoryComplete ==
  /\ calls - Len(ops) = Len(hist)
  /\ \A i \in 1..Len(ops) : ops[i].pc /= "decompress"

CountersStep ==
  IF GetLookup
  THEN /\ metrics'.hits + metrics'.misses = metrics.hits + metrics.misses + 1
       /\ metrics'.hits >= metrics.hits
       /\ metrics'.misses >= metrics.misses
  ELSE IF ClearStep
       THEN cache' = <<>> /\ metrics'.hits = 0 /\ metrics'.misses = 0
       ELSE metrics'.hits = metrics.hits /\ metrics'.misses = metrics.misses

\* C19: a get adds 1 to exactly one of hits and misses; set, delete, warm,
\* getSize and getMetrics change neither; clear empties the cache and sets
\* both to 0; so hits + misses is the number of gets completed since the
\* construction or the last clear.
C19_Counters ==
  /\ [][CountersStep]_vars
  /\ [](HistoryComplete => metrics.hits + metrics.misses = getsSinceClear)

\* a get that hit was followed by a clear: the counters are back at 0
C19_Witness ==
  /\ Len(hist) = 2
  /\ hist[1].op = "get" /\ hist[1].flag
  /\ hist[2].op = "clear"
  /\ HistoryComplete
  /\ cache = <<>>
  /\ metrics.hits = 0 /\ metrics.misses = 0

(***************************************************************************)
(* Compression                                                             *)
(***************************************************************************)
\* the step in which a get returns a hit
GetHitReturns ==
  /\ hist' /= hist
  /\ Last(hist').op = "get"
  /\ Last(hist').flag
  /\ lastAccess'.id = Last(hist').id

\* C20: a set that stores its value stores it compressed exactly when the
\* serialized size is strictly greater than compressionThreshold; what is
\* stored decompresses to the value that was set, a hit returns the value
\* that decompression gives, and a value at or below the threshold is stored
\* and returned as it is.
C20_CompressedAboveThreshold ==
  [][/\ (SetStep /\ ~Last(hist').flag) =>
          LET done == Last(hist')
              e == entryOf(cache', done.key)
          IN /\ e.compressed <=> (serializedSize(done.value) > config.compressionThreshold)
             /\ e.compressed => (e.value.kind = "Buffer" /\ decompressValue(e.value) = done.value)
             /\ ~e.compressed => e.value = done.value
     /\ GetHitReturns =>
          LET done == Last(hist')
              e == entryOf(cache', done.key)
          IN /\ done.result.kind = "Rule"
             /\ e.compressed => decompressValue(e.value) = done.result
             /\ ~e.compressed => e.value = done.result]_vars

\* a rule above the threshold was set and read back: the entry holds a buffer
\* and the get returned the rule, its date a Date again
C20_Witness ==
  /\ Len(hist) = 2
  /\ hist[1].op = "set" /\ ~hist[1].flag
  /\ serializedSize(hist[1].value) > config.compressionThreshold
  /\ hist[2].op = "get" /\ hist[2].flag /\ hist[2].key = hist[1].key
  /\ mapHas(cache, hist[1].key)
  /\ entryOf(cache, hist[1].key).compressed
  /\ entryOf(cache, hist[1].key).value.kind = "Buffer"
  /\ entryOf(cache, hist[1].key).value.createdAt.kind = "string"
  /\ hist[2].result = hist[1].value
  /\ hist[2].result.createdAt.kind = "Date"

\* the resident entries that are stored compressed
compressedResident == {e \in entriesOf(cache) : e.compressed}

\* C21: the compressionRatio of the metrics is zero whenever no resident entry
\* is compressed, and whenever compressed entries are resident it is the
\* ratio computed over exactly those entries.
C21_RatioOfResidentEntries ==
  /\ compressedResident = {} => metrics.compressionRatio.num = 0
  /\ compressedResident /= {} =>
       /\ metrics.compressionRatio.num > 0
       /\ metrics.compressionRatio.num * calculateCompressionRatio(cache).den
            = calculateCompressionRatio(cache).num * metrics.compressionRatio.den

\* two results of compose that differ at most in the generated id
sameButId(x, y) ==
  /\ x.status = y.status
  /\ x.error = y.error
  /\ [x.rule EXCEPT !.id = y.rule.id] = y.rule

\* the rules of the input stand in the order the sort would give them
InputSorted == \A i \in 1..(Len(rules) - 1) : rules[i].priority >= rules[i + 1].priority

ConstructStep == hist = <<>> /\ hist' /= <<>> /\ hist'[1].op = "constructor"

\* the constructor threw an error with this message and assigned no field
FailedWith(message) ==
  /\ hist'[1].flag
  /\ hist'[1].result.kind = "Error"
  /\ hist'[1].result.id = message
  /\ resolved' = {}
  /\ UNCHANGED <<cache, metrics, config, operationLock>>

\* C23: construction with ttl <= 0 throws the TTL error, also when maxSize is
\* not positive either; with a positive ttl and maxSize <= 0 it throws the
\* maxSize error; in both cases no instance exists and no operation ever
\* runs.  With positive ttl and maxSize it returns an empty cache whose hits
\* and misses are 0.
C23_Construction ==
  /\ [][ConstructStep =>
          /\ config.ttl <= 0 => FailedWith("TTL must be a positive number")
          /\ (config.ttl > 0 /\ config.maxSize <= 0) =>
               FailedWith("maxSize must be a positive number")
          /\ (config.ttl > 0 /\ config.maxSize > 0) =>
               /\ ~hist'[1].flag
               /\ Constructed'
               /\ cache' = <<>>
               /\ metrics'.hits = 0
               /\ metrics'.misses = 0
               /\ config'.ttl = config.ttl
               /\ config'.maxSize = config.maxSize]_vars
  /\ [](~Constructed => (ops = <<>> /\ calls = 0))
  /\ []((hist /= <<>> /\ Last(hist).op = "getSize" /\ calls = 1) => Last(hist).n = 0)

C23_Witness ==
  /\ hist /= <<>>
  /\ hist[1].op = "constructor"
  /\ config.ttl <= 0
  /\ config.maxSize <= 0
  /\ hist[1].result.id = "TTL must be a positive number"
  /\ ~Constructed

\* C24: a get that hits adds 1 to hits and to the entry's accessCount and
\* stamps lastAccessed with the current time; the entry's expiresAt, base
\* priority, stored value and every other field, the place of every entry in
\* the map, every other entry, misses and the compression ratio are unchanged.
C24_HitFrame ==
  [][(/\ GetLookup
      /\ lastAccess'.key \in keysOf(cache)
      /\ DateNow <= entryOf(cache, lastAccess'.key).expiresAt) =>
       LET key == lastAccess'.key
           old == entryOf(cache, key)
       IN /\ metrics' = [metrics EXCEPT !.hits = @ + 1]
          /\ Len(cache') = Len(cache)
          /\ \A i \in 1..Len(cache) :
               IF cache[i].key = key
               THEN cache'[i] = [old EXCEPT !.accessCount = @ + 1, !.lastAccessed = DateNow]
               ELSE cache'[i] = cache[i]
          /\ entryOf(cache', key).expiresAt = old.expiresAt
          /\ entryOf(cache', key).priority = old.priority
          /\ entryOf(cache', key).value = old.value
          /\ UNCHANGED <<config, insertSeq, warmingInProgress>>]_vars

\* an entry was hit after its insertion time and kept its deadline
C24_Witness ==
  /\ hist /= <<>>
  /\ Last(hist).op = "get" /\ Last(hist).flag
  /\ Last(hist).key \in keysOf(cache)
  /\ entryOf(cache, Last(hist).key).lastAccessed = Last(hist).at
  /\ Last(hist).at > 0
  /\ entryOf(cache, Last(hist).key).expiresAt < Last(hist).at + config.ttl
  /\ Len(cache) = 2

\* the step in which the body of a call starts to run
BodyStarts == lastAccess' /= lastAccess /\ lastAccess'.phase = "body"

\* C25: a body starts only when every call made before it has completed, and
\* calls complete in the order in which they were made, whether or not the
\* callers awaited earlier calls; when callers each set their own key and then
\* get it, on a cache with room for all keys and no expiry, every get is a hit
\* that returns the rule its caller set.
C25_Fifo ==
  /\ [][BodyStarts => \A o \in pendingOps : o.id >= lastAccess'.id]_vars
  /\ [][(hist' /= hist /\ Len(hist') = 2) => hist'[1].id < hist'[2].id]_vars
  /\ [][(hist' /= hist /\ Last(hist').op = "get") =>
          LET done == Last(hist')
              entry == entryOf(cache', done.key)
          IN /\ done.flag
             /\ \E c \in Callers : done.key = FifoKeys[c] /\ done.result \in callerRules(c)
             /\ done.result.len = entry.value.len]_vars

\* two callers called set before either called get, both rules were
\* compressed, and both gets have returned
C25_Witness ==
  /\ ops = <<>>
  /\ Len(hist) = 2
  /\ hist[1].op = "get" /\ hist[1].id = 3 /\ hist[1].flag
  /\ hist[2].op = "get" /\ hist[2].id = 4 /\ hist[2].flag
  /\ hist[1].key /= hist[2].key
  /\ \A e \in entriesOf(cache) : e.compressed

\* the call with this id has been made and has not completed
Pending(id) == \E o \in pendingOps : o.id = id

\* the step in which the body of a get fails
FailStep == hist' /= hist /\ Last(hist').result.kind = "Error"

\* C26: every call that was made completes, also a call queued behind a get
\* whose decompression fails; the failing step hands the error to its own
\* caller, resolves the lock, and leaves the queued calls and the cache as
\* they were.
C26_LockReleased ==
  /\ \A id \in 1..MaxCalls : Pending(id) ~> (id \in resolved)
  /\ [][FailStep =>
          LET done == Last(hist') IN
          /\ done.id \in resolved'
          /\ resolved' = resolved \cup {done.id}
          /\ pendingOps' = {o \in pendingOps : o.id /= done.id}
          /\ UNCHANGED <<cache, metrics, operationLock>>]_vars
  /\ [][(hist' /= hist /\ Len(hist) >= 1 /\ Last(hist).result.kind = "Error") =>
          Last(hist').result.kind /= "Error" \/ Last(hist').op = "get"]_vars

\* a get failed while a set was queued behind it, and the set then ran
C26_Witness ==
  /\ Len(hist) = 2
  /\ hist[1].op = "get" /\ hist[1].result.kind = "Error" /\ hist[1].id = 1
  /\ hist[2].op = "set" /\ hist[2].id = 2 /\ hist[2].at = hist[1].at
  /\ hist[2].key \in keysOf(cache)
  /\ ops = <<>>
  /\ resolved = {0, 1, 2}

\* C27: a set of a key that is already resident, on a cache that holds maxSize
\* entries, runs the eviction step: either the insert is dropped and the cache,
\* with the key's old entry, stays as it was, or one entry ranked first or
\* second is removed and the key gets its new entry; when the removed key is
\* not the key that was set, maxSize - 1 entries are left.
C27_UpdateEvicts ==
  [][(SetStep /\ AtCapacity /\ Last(hist').key \in keysOf(cache)) =>
       LET done == Last(hist') IN
       IF done.flag
       THEN cache' = cache
       ELSE \E e \in entriesOf(cache) :
              /\ firstRanked(e) \/ secondRanked(e)
              /\ done.evicted = e.key
              /\ EvictedAndInserted(e)
              /\ Len(cache') = IF e.key = done.key THEN config.maxSize
                               ELSE config.maxSize - 1]_vars

\* an update of a resident key at capacity removed another key
C27_Witness ==
  /\ hist /= <<>>
  /\ Last(hist).op = "set"
  /\ ~Last(hist).flag
  /\ Last(hist).evicted \notin {"", Last(hist).key}
  /\ Last(hist).key \in keysOf(cache)
  /\ config.maxSize >= 2
  /\ Len(cache) = config.maxSize - 1
  /\ ops = <<>>

\* the body of a call of this operation runs in this step
Acting(op) ==
  /\ lastAccess' /= lastAccess
  /\ lastAccess'.op = op
  /\ lastAccess'.phase \in {"body", "resume"}

\* the resident entries whose deadline has passed
expiredResident == {e \in entriesOf(cache) : DateNow > e.expiresAt}

\* C28: an entry whose deadline has passed leaves the cache only in a get of
\* its key, a delete of its key, a clear, the eviction step of a set, or a
\* warm that changes the cache, and is replaced only by a set of its key; a set
\* removes no entry but the one it evicts, getSize counts expired entries, and
\* a set on a cache filled to maxSize by expired entries still evicts or drops.
C28_ExpiredStayResident ==
  /\ [][\A e \in expiredResident :
          /\ e.key \notin keysOf(cache') =>
               \/ Acting("get") /\ lastAccess'.key = e.key
               \/ Acting("delete") /\ lastAccess'.key = e.key
               \/ Acting("clear")
               \/ Acting("set") /\ SetStep /\ Last(hist').evicted = e.key
               \/ Acting("warm") /\ Last(hist').flag
          /\ (e.key \in keysOf(cache') /\ entryOf(cache', e.key) /= e) =>
               Acting("set") /\ lastAccess'.key = e.key]_vars
  /\ [][Acting("getSize") => Last(hist').n = Len(cache) /\ cache' = cache]_vars
  /\ [][(SetStep /\ AtCapacity) => (Last(hist').flag \/ Last(hist').evicted /= "")]_vars

\* a set at capacity evicted the entry that the call before it had stored,
\* before that entry's deadline, while an entry past its deadline stayed
C28_Witness ==
  /\ Len(hist) = 2
  /\ hist[1].op = "set" /\ ~hist[1].flag
  /\ hist[2].op = "set" /\ ~hist[2].flag
  /\ hist[2].key /= hist[1].key
  /\ hist[2].evicted = hist[1].key
  /\ hist[2].at <= hist[1].at + config.ttl
  /\ \E e \in entriesOf(cache) : e.key /= hist[2].key /\ e.expiresAt < hist[2].at
  /\ ops = <<>>

\* the input in another order
Perms(n) == {f \in [1..n -> 1..n] : \A i, j \in 1..n : i /= j => f[i] /= f[j]}
permuted(rs, perm) == [i \in 1..Len(rs) |-> rs[perm[i]]]

DistinctPriorities ==
  \A i, j \in 1..Len(rules) : i /= j => rules[i].priority /= rules[j].priority

\* C29: for a valid acyclic input of two or more rules with pairwise distinct
\* priorities, compose of every reordering of the input gives the same
\* content, tags, priority, type, name and description as compose of the input.
C29_OrderIndependent ==
  (Composed /\ Len(rules) >= 2 /\ ValidInput /\ ~Cyclic /\ DistinctPriorities) =>
     \A perm \in Perms(Len(rules)) :
        LET other == compose(permuted(rules, perm), "u1") IN
        /\ other.status = composed.status
        /\ other.rule.content = composed.rule.content
        /\ other.rule.tags = composed.rule.tags
        /\ other.rule.priority = composed.rule.priority
        /\ other.rule.type = composed.rule.type
        /\ other.rule.name = composed.rule.name
        /\ other.rule.description = composed.rule.description

\* three rules of three priorities, given in an order that is not the sorted
\* one, were composed, with a conflict among them
C29_Witness ==
  /\ MultiComposed
  /\ Len(rules) = 3
  /\ DistinctPriorities
  /\ rules[1].priority < rules[2].priority
  /\ rules[2].priority < rules[3].priority
  /\ composed.rule.type = rules[3].type
  /\ composed.rule.type /= rules[1].type
  /\ composed.rule.description.conflicts >= 1

\* rule i has a depends-on directive that names an id
declares(i) == \E j \in 1..Len(rules[i].content) : rules[i].content[j].kind = "dep"

\* no rule has a depends-on directive without an id
NoEmptyDirective ==
  \A i \in 1..Len(rules) : \A j \in 1..Len(rules[i].content) :
    rules[i].content[j].kind /= "depEmpty"

\* C30: when two rules of a valid input without a dependency cycle declare
\* dependencies on different ids, compose succeeds and records a conflict on
\* the key depends-on: the description counts it, and the Conflict Resolution
\* section lists the declared ids and a resolution for it.
C30_DirectiveIsSetting ==
  (/\ Composed
   /\ Len(rules) >= 2
   /\ ValidInput
   /\ NoEmptyDirective
   /\ ~Cyclic
   /\ \E i, j \in 1..Len(rules) :
        /\ declares(i) /\ declares(j)
        /\ ruleValue(i, "depends-on") /= ruleValue(j, "depends-on")) =>
     /\ composed.status = "resolved"
     /\ "depends-on" \in conflictKeys
     /\ composed.rule.description.conflicts >= 1
     /\ listedCount("depends-on") = Cardinality({i \in 1..Len(rules) : declares(i)})
     /\ \A i \in 1..Len(rules) :
          declares(i) =>
            \E n \in 1..listedCount("depends-on") :
              listedValue("depends-on", n) = ruleValue(i, "depends-on")
     /\ resolutionOf("depends-on").kind = "resolution"

\* a depends on b and b depends on a rule outside the input: the composition
\* succeeded with one conflict, on depends-on
C30_Witness ==
  /\ MultiComposed
  /\ Len(rules) = 2
  /\ rules[1].content = <<Dep("b")>>
  /\ rules[2].content = <<Dep(ExternalId)>>
  /\ conflictKeys = {"depends-on"}
  /\ composed.rule.description.conflicts = 1

====
